---- MODULE Spec2Model ----
(***************************************************************************)
(* Model of the differential test orchestrator of vdbmsfuzz                *)
(* (src/fuzz/differential_tester.py): run_test fans one operation out to   *)
(* every configured client as an asyncio task, waits for all of them with  *)
(* gather, compares the successful results with the comparator of the      *)
(* operation and builds the TestResult.                                    *)
(*                                                                         *)
(* Python values (the payloads the adapters return) are records of one     *)
(* shape [t, i, s, l]: t is the Python type, i the integer of an int/bool, *)
(* s the text of a str or the key of a dict entry, l the elements of a     *)
(* list or the entries of a dict in insertion order.                       *)
(***************************************************************************)
EXTENDS Integers, Sequences, FiniteSets, TLC

VARIABLES operation, inputs, pc, tasks, calls, db_results, inconsistencies,
          test_result,
          \* a second run_test invocation on the same DifferentialTester
          operation2, inputs2, pc2, tasks2, calls2, db_results2,
          inconsistencies2, test_result2,
          \* one call of _extract_search_result_ids: argument, outcome and
          \* the number of times the 'result' branch was taken
          argument, extracted, unwrapped,
          \* one call of the fuzz generator: the input dict it returned and
          \* the edge case it chose ("" for generate_test)
          params, scenario,
          \* the clients' connection state (VDBMSFuzzer.clients) and the
          \* position of the driver in main()
          adapters, driver

\* the local variables of the second run_test invocation
second == <<operation2, inputs2, pc2, tasks2, calls2, db_results2,
            inconsistencies2, test_result2>>

\* the argument and the outcome of a direct call of the extractor
extraction == <<argument, extracted, unwrapped>>

\* what a call of the fuzz generator returned besides the operation tag
generation == <<params, scenario>>

\* the state of the clients and of the driver around the tests
lifecycle == <<adapters, driver>>

vars == <<operation, inputs, pc, tasks, calls, db_results, inconsistencies,
          test_result, second, extraction, generation,
                   lifecycle>>

(***************************************************************************)
(* Bounds of the model.                                                    *)
(***************************************************************************)
NumClients == 3
MaxQueries == 2
MaxOps == 2

(***************************************************************************)
(* Python values.                                                          *)
(***************************************************************************)
Mk(t, i, s, l) == [t |-> t, i |-> i, s |-> s, l |-> l]
PyNone == Mk("none", 0, "", <<>>)
PyInt(n) == Mk("int", n, "", <<>>)
PyStr(s) == Mk("str", 0, s, <<>>)
PyBool(b) == Mk("bool", IF b THEN 1 ELSE 0, "", <<>>)
PyList(l) == Mk("list", 0, "", l)
KV(k, v) == Mk("kv", 0, k, <<v>>)
PyDict(kvs) == Mk("dict", 0, "", kvs)

IsDict(x) == x.t = "dict"
IsList(x) == x.t = "list"
IsStr(x) == x.t = "str"

\* `k in d` for a dict d
HasKey(d, k) == \E j \in 1..Len(d.l) : d.l[j].s = k
\* d[k] for a dict d that has k
GetItem(d, k) == d.l[CHOOSE j \in 1..Len(d.l) : d.l[j].s = k].l[1]
\* d.get(k, default)
DictGet(d, k, default) == IF HasKey(d, k) THEN GetItem(d, k) ELSE default
\* the values of a dict, in insertion order
DictValues(d) == [j \in 1..Len(d.l) |-> d.l[j].l[1]]

\* hasattr(x, 'get'): of the JSON values only dicts have a get attribute
HasAttrGet(x) == IsDict(x)
\* len(x) is defined for str, list and dict
HasLen(x) == x.t \in {"str", "list", "dict"}
PyLen(x) == IF x.t = "str" THEN Len(x.s) ELSE Len(x.l)
\* set(...) needs hashable members
Hashable(x) == x.t \notin {"list", "dict"}
\* equal members of a Python set: True == 1 and False == 0
PyKey(x) == IF x.t = "bool" THEN PyInt(x.i) ELSE x

(***************************************************************************)
(* The configured clients, in the insertion order of the clients dict.     *)
(***************************************************************************)
AllClients == <<"milvus", "chroma", "qdrant", "weaviate">>
Clients == SubSeq(AllClients, 1, NumClients)
Names == {Clients[j] : j \in 1..Len(Clients)}

Operations == {"insert", "search", "delete", "batch_insert", "batch_search",
               "mixed_operations"}

\* an operation tag outside the vocabulary
UnknownOperation == "unknown"

(***************************************************************************)
(* Test inputs.  Only what _safe_execute reads decides its control flow:   *)
(* whether the key the operation indexes is present, how many query        *)
(* vectors a batch search carries, and the sub-operations of a mixed test  *)
(* (their 'type' and whether the fields that type indexes are present).    *)
(***************************************************************************)
SubOp(type, complete) == [type |-> type, complete |-> complete]
SubOps == {SubOp("insert", TRUE), SubOp("search", TRUE), SubOp("delete", TRUE),
           SubOp("update", TRUE), SubOp("insert", FALSE)}
SeqsUpTo(S, n) == UNION {[1..m -> S] : m \in 0..n}
MkInputs(has_key, nq, ops) ==
    [has_key |-> has_key, query_vectors |-> nq, operations |-> ops]
InputsFor(op) ==
    {MkInputs(FALSE, 0, <<>>)} \cup
    (CASE op = "batch_search" ->
            {MkInputs(TRUE, nq, <<>>) : nq \in 0..MaxQueries}
       [] op = "mixed_operations" ->
            {MkInputs(TRUE, 0, ops) : ops \in SeqsUpTo(SubOps, MaxOps)}
       [] OTHER -> {MkInputs(TRUE, 0, <<>>)})

\* the key of inputs that _safe_execute indexes for the operation
RequiredKey(op) ==
    CASE op \in {"insert", "batch_insert"} -> "vectors"
      [] op = "search" -> "query_vector"
      [] op = "delete" -> "ids"
      [] op = "batch_search" -> "query_vectors"
      [] op = "mixed_operations" -> "operations"
      [] OTHER -> ""

(***************************************************************************)
(* DatabaseResult, and the state of one asyncio task.  The durations are   *)
(* wall-clock measurements (time.time() differences): the model keeps them *)
(* as the one abstract value Elapsed.                                      *)
(***************************************************************************)
Elapsed == "elapsed"
DatabaseResult(database, success, data, error) ==
    [database |-> database, success |-> success, data |-> data,
     error |-> error, execution_time |-> Elapsed]
NoResult == DatabaseResult("", FALSE, PyNone, "")

\* st: "none" before the task exists, "pending" once created, "awaiting"
\* while suspended in a client call, "done" once _safe_execute returned;
\* idx: the position of the loop; data: the list collected so far
Task(st, idx, data, result) ==
    [st |-> st, idx |-> idx, data |-> data, result |-> result]

\* one call of a client method: what was called and how it settled
Call(method, outcome, ret, err) ==
    [method |-> method, outcome |-> outcome, ret |-> ret, err |-> err]

(***************************************************************************)
(* str() and repr() of a Python value, and the str methods the code uses.  *)
(***************************************************************************)
Digit(d) == SubSeq("0123456789", d + 1, d + 1)

RECURSIVE IntToStr(_)
IntToStr(n) ==
    IF n < 0 THEN "-" \o IntToStr(-n)
    ELSE IF n < 10 THEN Digit(n)
    ELSE IntToStr(n \div 10) \o Digit(n % 10)

RECURSIVE PyText(_, _)
RECURSIVE JoinRepr(_, _)
\* str(v) when ~quoted, repr(v) when quoted
PyText(v, quoted) ==
    CASE v.t = "int" -> IntToStr(v.i)
      [] v.t = "str" -> IF quoted THEN "'" \o v.s \o "'" ELSE v.s
      [] v.t = "none" -> "None"
      [] v.t = "bool" -> IF v.i = 1 THEN "True" ELSE "False"
      [] v.t = "list" -> "[" \o JoinRepr(v.l, 1) \o "]"
      [] v.t = "dict" -> "{" \o JoinRepr(v.l, 1) \o "}"
      [] v.t = "kv" -> "'" \o v.s \o "': " \o PyText(v.l[1], TRUE)
JoinRepr(l, j) ==
    IF j > Len(l) THEN ""
    ELSE PyText(l[j], TRUE) \o (IF j < Len(l) THEN ", " ELSE "")
                            \o JoinRepr(l, j + 1)
PyStrOf(v) == PyText(v, FALSE)

\* str.lower(): the upper-case letters of the texts the payloads carry
LowerChar(c) ==
    CASE c = "A" -> "a" [] c = "C" -> "c" [] c = "D" -> "d" [] c = "E" -> "e"
      [] c = "K" -> "k" [] c = "L" -> "l" [] c = "M" -> "m" [] c = "O" -> "o"
      [] c = "P" -> "p" [] c = "R" -> "r" [] c = "S" -> "s" [] c = "T" -> "t"
      [] c = "U" -> "u" [] OTHER -> c
RECURSIVE Lower(_)
Lower(s) ==
    IF Len(s) = 0 THEN ""
    ELSE LowerChar(SubSeq(s, 1, 1)) \o Lower(SubSeq(s, 2, Len(s)))

\* `sub in s` for two str
StrContains(s, sub) ==
    \E j \in 1..(Len(s) - Len(sub) + 1) : SubSeq(s, j, j + Len(sub) - 1) = sub

\* bool(v)
Truthy(v) ==
    CASE v.t = "none" -> FALSE
      [] v.t \in {"bool", "int"} -> v.i # 0
      [] v.t = "str" -> v.s # ""
      [] OTHER -> Len(v.l) > 0

\* `'id' in x`: raises TypeError unless x is a container or a str
InRaises(x) == x.t \in {"none", "int", "bool"}
InTest(x, k) ==
    CASE x.t = "dict" -> HasKey(x, k)
      [] x.t = "list" -> \E j \in 1..Len(x.l) : x.l[j] = PyStr(k)
      [] x.t = "str" -> StrContains(x.s, k)
      [] OTHER -> FALSE
\* x['id'] with a str key: only a dict can be subscripted by a str
SubscriptRaises(x) == ~IsDict(x)

(***************************************************************************)
(* The outcome of a function that may raise: exc is the exception raised   *)
(* ("" when it returned) and out the value returned.                       *)
(***************************************************************************)
Ok(out) == [exc |-> "", out |-> out]
Raise(e) == [exc |-> e, out |-> <<>>]

(***************************************************************************)
(* _extract_search_result_ids: the identifiers of a search payload, as     *)
(* strings, in payload order.                                              *)
(***************************************************************************)
\* the loop over data['data'] (lines 398-400)
RECURSIVE IdsOfData(_)
IdsOfData(items) ==
    IF items = <<>> THEN <<>>
    ELSE (IF IsDict(Head(items)) /\ HasKey(Head(items), "id")
          THEN <<PyStrOf(GetItem(Head(items), "id"))>> ELSE <<>>)
         \o IdsOfData(Tail(items))

\* variant: [repr(id) for id in l]
ReprAll(l) == [j \in 1..Len(l) |-> PyText(l[j], TRUE)]

\* [str(id) for id in l] (lines 403, 429, 432)
StrAll(l) == [j \in 1..Len(l) |-> PyStrOf(l[j])]

\* the loop over one collection of the 'Get' payload (lines 412-416)
RECURSIVE IdsOfGetItems(_)
IdsOfGetItems(items) ==
    IF items = <<>> THEN Ok(<<>>)
    ELSE LET item == Head(items)
             rest == IdsOfGetItems(Tail(items))
         IN  IF IsDict(item) /\ HasKey(item, "_additional")
             THEN LET additional == GetItem(item, "_additional")
                  IN  IF InRaises(additional) THEN Raise("TypeError")
                      ELSE IF ~InTest(additional, "id") THEN rest
                      ELSE IF SubscriptRaises(additional)
                           THEN Raise("TypeError")
                      ELSE IF rest.exc # "" THEN rest
                      ELSE Ok(<<PyStrOf(GetItem(additional, "id"))>>
                              \o rest.out)
             ELSE rest

\* the loop over get_data.values() (lines 410-416)
RECURSIVE IdsOfGet(_)
IdsOfGet(collections) ==
    IF collections = <<>> THEN Ok(<<>>)
    ELSE LET first == IF IsList(Head(collections))
                      THEN IdsOfGetItems(Head(collections).l)
                      ELSE Ok(<<>>)
         IN  IF first.exc # "" THEN first
             ELSE LET rest == IdsOfGet(Tail(collections))
                  IN  IF rest.exc # "" THEN rest
                      ELSE Ok(first.out \o rest.out)

\* the loop over data['points'] (lines 419-421)
RECURSIVE IdsOfPoints(_)
IdsOfPoints(points) ==
    IF points = <<>> THEN Ok(<<>>)
    ELSE LET point == Head(points)
         IN  IF InRaises(point) THEN Raise("TypeError")
             ELSE IF ~InTest(point, "id") THEN IdsOfPoints(Tail(points))
             ELSE IF SubscriptRaises(point) THEN Raise("TypeError")
             ELSE LET rest == IdsOfPoints(Tail(points))
                  IN  IF rest.exc # "" THEN rest
                      ELSE Ok(<<PyStrOf(GetItem(point, "id"))>> \o rest.out)

\* the loop over the sublists of a nested list (lines 427-429)
RECURSIVE IdsOfSublists(_)
IdsOfSublists(sublists) ==
    IF sublists = <<>> THEN <<>>
    ELSE (IF IsList(Head(sublists)) THEN StrAll(Head(sublists).l) ELSE <<>>)
         \o IdsOfSublists(Tail(sublists))

\* variant: the 'result' branch extends result_ids with the inner ids twice
RECURSIVE ExtractWrapperTwice(_)
ExtractWrapperTwice(data) ==
    IF IsDict(data) THEN
        IF HasKey(data, "data") /\ IsList(GetItem(data, "data"))
            THEN Ok(IdsOfData(GetItem(data, "data").l))
        ELSE IF HasKey(data, "ids") /\ IsList(GetItem(data, "ids"))
            THEN Ok(StrAll(GetItem(data, "ids").l))
        ELSE IF HasKey(data, "result")
            THEN LET inner == ExtractWrapperTwice(GetItem(data, "result"))
                 IN  IF inner.exc # "" THEN inner
                     ELSE Ok(inner.out \o inner.out)
        ELSE IF HasKey(data, "Get")
            THEN LET get_data == GetItem(data, "Get")
                 IN  IF ~IsDict(get_data) THEN Raise("AttributeError")
                     ELSE IdsOfGet(DictValues(get_data))
        ELSE IF HasKey(data, "points") /\ IsList(GetItem(data, "points"))
            THEN IdsOfPoints(GetItem(data, "points").l)
        ELSE Ok(<<>>)
    ELSE IF IsList(data) THEN
        IF Len(data.l) > 0 /\ IsList(data.l[1])
            THEN Ok(IdsOfSublists(data.l))
        ELSE Ok(StrAll(data.l))
    ELSE Ok(<<>>)

\* variant: the branches are separate ifs, so that every matching key
\* contributes its identifiers
RECURSIVE ExtractEveryKey(_)
ExtractEveryKey(data) ==
    IF IsDict(data) THEN
        LET of_data == IF HasKey(data, "data") /\ IsList(GetItem(data, "data"))
                       THEN Ok(IdsOfData(GetItem(data, "data").l)) ELSE Ok(<<>>)
            of_ids == IF HasKey(data, "ids") /\ IsList(GetItem(data, "ids"))
                      THEN Ok(StrAll(GetItem(data, "ids").l)) ELSE Ok(<<>>)
            of_result == IF HasKey(data, "result")
                         THEN ExtractEveryKey(GetItem(data, "result"))
                         ELSE Ok(<<>>)
            of_get == IF HasKey(data, "Get")
                      THEN LET get_data == GetItem(data, "Get")
                           IN  IF ~IsDict(get_data) THEN Raise("AttributeError")
                               ELSE IdsOfGet(DictValues(get_data))
                      ELSE Ok(<<>>)
            of_points == IF HasKey(data, "points") /\ IsList(GetItem(data, "points"))
                         THEN IdsOfPoints(GetItem(data, "points").l)
                         ELSE Ok(<<>>)
        IN  IF of_result.exc # "" THEN of_result
            ELSE IF of_get.exc # "" THEN of_get
            ELSE IF of_points.exc # "" THEN of_points
            ELSE Ok(of_data.out \o of_ids.out \o of_result.out
                        \o of_get.out \o of_points.out)
    ELSE IF IsList(data) THEN
        IF Len(data.l) > 0 /\ IsList(data.l[1])
            THEN Ok(IdsOfSublists(data.l))
        ELSE Ok(StrAll(data.l))
    ELSE Ok(<<>>)

RECURSIVE _extract_search_result_ids(_)
_extract_search_result_ids(data) ==
    IF IsDict(data) THEN
        IF HasKey(data, "data") /\ IsList(GetItem(data, "data"))
            THEN Ok(IdsOfData(GetItem(data, "data").l))
        ELSE IF HasKey(data, "ids") /\ IsList(GetItem(data, "ids"))
            THEN Ok(StrAll(GetItem(data, "ids").l))
        ELSE IF HasKey(data, "result")
            THEN _extract_search_result_ids(GetItem(data, "result"))
        ELSE IF HasKey(data, "Get")
            THEN LET get_data == GetItem(data, "Get")
                 IN  IF ~IsDict(get_data) THEN Raise("AttributeError")
                     ELSE IdsOfGet(DictValues(get_data))
        ELSE IF HasKey(data, "points") /\ IsList(GetItem(data, "points"))
            THEN IdsOfPoints(GetItem(data, "points").l)
        ELSE Ok(<<>>)
    ELSE IF IsList(data) THEN
        IF Len(data.l) > 0 /\ IsList(data.l[1])
            THEN Ok(IdsOfSublists(data.l))
        ELSE Ok(StrAll(data.l))
    ELSE Ok(<<>>)

\* the number of recursive calls of lines 404-406 one call of the extractor
\* makes, down to the payload that takes another branch
RECURSIVE WrapperSteps(_)
WrapperSteps(data) ==
    IF /\ IsDict(data)
       /\ ~(HasKey(data, "data") /\ IsList(GetItem(data, "data")))
       /\ ~(HasKey(data, "ids") /\ IsList(GetItem(data, "ids")))
       /\ HasKey(data, "result")
    THEN 1 + WrapperSteps(GetItem(data, "result"))
    ELSE 0

\* set(result_ids), or the empty set when the extractor raised
\* (the try/except of lines 257-262 and 303-311)
SeqToSet(q) == {q[j] : j \in 1..Len(q)}
IdSet(data) ==
    LET r == _extract_search_result_ids(data)
    IN  IF r.exc # "" THEN {} ELSE SeqToSet(r.out)

(***************************************************************************)
(* Inconsistencies.  An inconsistency string is kept as the parts its      *)
(* f-string formats: kind is the fixed text, names and others the adapter  *)
(* names, vals the per-adapter values of a dict (in the order of names),   *)
(* num the overlap in tenths of a percent, idx the query index.            *)
(***************************************************************************)
Inc(kind, names, others, vals, num, idx) ==
    [kind |-> kind, names |-> names, others |-> others, vals |-> vals,
     num |-> num, idx |-> idx]

\* an ordered dict is a sequence of entries, in insertion order
Entry(k, v) == [k |-> k, v |-> v]
Keys(d) == [j \in 1..Len(d) |-> d[j].k]
Values(d) == [j \in 1..Len(d) |-> d[j].v]
Lookup(d, k) == d[CHOOSE j \in 1..Len(d) : d[j].k = k].v

\* f"{overlap_percent:.1f}" as tenths of a percent, rounded half to even
OverlapTenths(inter, max_len) ==
    IF max_len = 0 THEN 0
    ELSE LET q == (1000 * inter) \div max_len
             r == (1000 * inter) % max_len
         IN  IF 2 * r > max_len THEN q + 1
             ELSE IF 2 * r = max_len THEN q + (q % 2)
             ELSE q

\* variant: overlap_percent <= 50
DiffersAtHalf(reference_ids, ids) ==
    LET inter == Cardinality(reference_ids \cap ids)
        max_len == IF Cardinality(reference_ids) >= Cardinality(ids)
                   THEN Cardinality(reference_ids) ELSE Cardinality(ids)
    IN  /\ (max_len = 0 \/ inter * 100 <= 50 * max_len)
        /\ Cardinality(reference_ids) > 0
        /\ Cardinality(ids) > 0

\* overlap_percent < 50 and len(reference_ids) > 0 and len(ids) > 0, with
\* overlap_percent = len(intersection) / max_len * 100 (0 when max_len = 0);
\* for these magnitudes the float comparison agrees with the exact one
DiffersSignificantly(reference_ids, ids) ==
    LET inter == Cardinality(reference_ids \cap ids)
        max_len == IF Cardinality(reference_ids) >= Cardinality(ids)
                   THEN Cardinality(reference_ids) ELSE Cardinality(ids)
    IN  /\ (max_len = 0 \/ inter * 100 < 50 * max_len)
        /\ Cardinality(reference_ids) > 0
        /\ Cardinality(ids) > 0

Overlap(reference_ids, ids) ==
    LET max_len == IF Cardinality(reference_ids) >= Cardinality(ids)
                   THEN Cardinality(reference_ids) ELSE Cardinality(ids)
    IN  OverlapTenths(Cardinality(reference_ids \cap ids), max_len)

(***************************************************************************)
(* _compare_insert_results                                                 *)
(***************************************************************************)
\* the count one result contributes to success_counts (lines 231-241):
\* an outcome whose out is the entries added (none or one)
InsertCount(e) ==
    LET data == e.v.data
    IN  IF HasAttrGet(data) THEN
            IF HasKey(data, "insert_count")
                THEN Ok(<<Entry(e.k, GetItem(data, "insert_count"))>>)
            ELSE IF HasKey(data, "status")
                THEN LET l == DictGet(data, "insert_ids", PyList(<<>>))
                     IN  IF HasLen(l) THEN Ok(<<Entry(e.k, PyInt(PyLen(l)))>>)
                         ELSE Raise("TypeError")
            ELSE Ok(<<>>)
        ELSE IF IsDict(data)
            THEN LET l == DictGet(data, "ids", PyList(<<>>))
                 IN  IF HasLen(l) THEN Ok(<<Entry(e.k, PyInt(PyLen(l)))>>)
                     ELSE Raise("TypeError")
        ELSE Ok(<<Entry(e.k, PyInt(1))>>)

\* the loop of lines 230-241
RECURSIVE InsertCounts(_)
InsertCounts(results) ==
    IF results = <<>> THEN Ok(<<>>)
    ELSE LET first == InsertCount(Head(results))
         IN  IF first.exc # "" THEN first
             ELSE LET rest == InsertCounts(Tail(results))
                  IN  IF rest.exc # "" THEN rest
                      ELSE Ok(first.out \o rest.out)

\* len(set(d.values())) > 1, which raises on an unhashable value
DistinctValues(d) == {PyKey(d[j].v) : j \in 1..Len(d)}

\* variant: len(set(success_counts.values())) >= 1
CompareInsertAnyCount(results) ==
    LET success_counts == InsertCounts(results)
    IN  IF success_counts.exc # "" THEN Raise(success_counts.exc)
        ELSE IF \E j \in 1..Len(success_counts.out) :
                    ~Hashable(success_counts.out[j].v)
            THEN Raise("TypeError")
        ELSE IF Cardinality(DistinctValues(success_counts.out)) >= 1
            THEN Ok(<<Inc("Insert count mismatch", Keys(success_counts.out),
                          <<>>, Values(success_counts.out), 0, 0)>>)
        ELSE Ok(<<>>)

_compare_insert_results(results) ==
    LET success_counts == InsertCounts(results)
    IN  IF success_counts.exc # "" THEN Raise(success_counts.exc)
        ELSE IF \E j \in 1..Len(success_counts.out) :
                    ~Hashable(success_counts.out[j].v)
            THEN Raise("TypeError")
        ELSE IF Cardinality(DistinctValues(success_counts.out)) > 1
            THEN Ok(<<Inc("Insert count mismatch", Keys(success_counts.out),
                          <<>>, Values(success_counts.out), 0, 0)>>)
        ELSE Ok(<<>>)

(***************************************************************************)
(* _compare_delete_results                                                 *)
(***************************************************************************)
SuccessWords == {"success", "ok", "completed"}

\* the boolean derived from one result (lines 340-346)
DeleteSuccess(e) ==
    LET data == e.v.data
    IN  IF HasAttrGet(data) THEN
            LET status == DictGet(data, "status", PyStr(""))
            IN  IF IsStr(status)
                THEN Ok(<<Entry(e.k, PyBool(Lower(status.s) \in SuccessWords))>>)
                ELSE Raise("AttributeError")
        ELSE IF IsDict(data)
            THEN Ok(<<Entry(e.k, DictGet(data, "success", PyBool(TRUE)))>>)
        ELSE Ok(<<Entry(e.k, PyBool(TRUE))>>)

\* the loop of lines 339-348
RECURSIVE DeleteStatuses(_)
DeleteStatuses(results) ==
    IF results = <<>> THEN Ok(<<>>)
    ELSE LET first == DeleteSuccess(Head(results))
         IN  IF first.exc # "" THEN first
             ELSE LET rest == DeleteStatuses(Tail(results))
                  IN  IF rest.exc # "" THEN rest
                      ELSE Ok(first.out \o rest.out)

\* variant: any(d.values())
AnyTruthy(d) == \E j \in 1..Len(d) : Truthy(d[j].v)

\* all(d.values())
AllTruthy(d) == \A j \in 1..Len(d) : Truthy(d[j].v)

_compare_delete_results(results) ==
    LET success_status == DeleteStatuses(results)
    IN  IF success_status.exc # "" THEN Raise(success_status.exc)
        ELSE IF ~AllTruthy(success_status.out)
            THEN Ok(<<Inc("Delete operation status mismatch",
                          Keys(success_status.out), <<>>,
                          Values(success_status.out), 0, 0)>>)
        ELSE Ok(<<>>)

(***************************************************************************)
(* _compare_search_results                                                 *)
(***************************************************************************)
\* search_results: the id set of every result, in order (lines 255-262)
SearchSets(results) ==
    [j \in 1..Len(results) |-> Entry(results[j].k, IdSet(results[j].v.data))]

\* variant: every client is compared with the client before it
RECURSIVE SearchDiffsChained(_, _, _, _)
SearchDiffsChained(kind, idx, sets, j) ==
    IF j > Len(sets) THEN <<>>
    ELSE LET reference_db == sets[IF j > 1 THEN j - 1 ELSE 1].k
             reference_ids == sets[IF j > 1 THEN j - 1 ELSE 1].v
             db_name == sets[j].k
             ids == sets[j].v
         IN  (IF db_name # reference_db /\ DiffersSignificantly(reference_ids, ids)
              THEN <<Inc(kind, <<reference_db>>, <<db_name>>, <<>>,
                         Overlap(reference_ids, ids), idx)>>
              ELSE <<>>)
             \o SearchDiffsChained(kind, idx, sets, j + 1)

\* the loop of lines 269-282 over an ordered dict of id sets
RECURSIVE SearchDiffs(_, _, _, _)
SearchDiffs(kind, idx, sets, j) ==
    IF j > Len(sets) THEN <<>>
    ELSE LET reference_db == sets[1].k
             reference_ids == sets[1].v
             db_name == sets[j].k
             ids == sets[j].v
         IN  (IF db_name # reference_db /\ DiffersSignificantly(reference_ids, ids)
              THEN <<Inc(kind, <<reference_db>>, <<db_name>>, <<>>,
                         Overlap(reference_ids, ids), idx)>>
              ELSE <<>>)
             \o SearchDiffs(kind, idx, sets, j + 1)

_compare_search_results(results) ==
    LET search_results == SearchSets(results)
    IN  IF search_results # <<>>
        THEN Ok(SearchDiffs("Search results differ significantly", 0,
                            search_results, 1))
        ELSE Ok(<<>>)

(***************************************************************************)
(* _compare_batch_search_results                                           *)
(***************************************************************************)
\* variant: a client whose list is too short answers with its last element
QuerySetsClamped(results, query_idx) ==
    [j \in 1..Len(results) |->
        LET data == results[j].v.data
        IN  Entry(results[j].k,
                  IF IsList(data) /\ Len(data.l) > 0
                  THEN IdSet(data.l[IF query_idx < Len(data.l)
                                    THEN query_idx + 1 ELSE Len(data.l)])
                  ELSE {})]

\* query_results of one query index (lines 301-311); query_idx counts from 0
QuerySets(results, query_idx) ==
    [j \in 1..Len(results) |->
        LET data == results[j].v.data
        IN  Entry(results[j].k,
                  IF IsList(data) /\ query_idx < Len(data.l)
                  THEN IdSet(data.l[query_idx + 1]) ELSE {})]

\* the loop of lines 300-329 from query index query_idx on
RECURSIVE BatchDiffs(_, _, _)
BatchDiffs(results, query_idx, n) ==
    IF query_idx >= n THEN <<>>
    ELSE (IF Len(results) > 1
          THEN SearchDiffs("Batch search results differ", query_idx,
                           QuerySets(results, query_idx), 1)
          ELSE <<>>)
         \o BatchDiffs(results, query_idx + 1, n)

_compare_batch_search_results(results) ==
    IF results = <<>> THEN Ok(<<>>)
    ELSE LET reference_data == results[1].v.data
         IN  IF ~IsList(reference_data) THEN Ok(<<>>)
             ELSE Ok(BatchDiffs(results, 0, Len(reference_data.l)))

(***************************************************************************)
(* _compare_mixed_operation_results and _compare_generic_results           *)
(***************************************************************************)
\* variant: a payload that is not a list counts as one result
CompareMixedNonListAsOne(results) ==
    LET operation_counts ==
            [j \in 1..Len(results) |->
                Entry(results[j].k,
                      IF IsList(results[j].v.data)
                      THEN PyInt(Len(results[j].v.data.l)) ELSE PyInt(1))]
    IN  IF Cardinality(DistinctValues(operation_counts)) > 1
        THEN Ok(<<Inc("Mixed operations execution count mismatch",
                      Keys(operation_counts), <<>>, Values(operation_counts),
                      0, 0)>>)
        ELSE Ok(<<>>)

\* lines 357-374
_compare_mixed_operation_results(results) ==
    LET operation_counts ==
            [j \in 1..Len(results) |->
                Entry(results[j].k,
                      IF IsList(results[j].v.data)
                      THEN PyInt(Len(results[j].v.data.l)) ELSE PyInt(0))]
    IN  IF Cardinality(DistinctValues(operation_counts)) > 1
        THEN Ok(<<Inc("Mixed operations execution count mismatch",
                      Keys(operation_counts), <<>>, Values(operation_counts),
                      0, 0)>>)
        ELSE Ok(<<>>)

_compare_generic_results(results) ==
    LET success_status ==
            [j \in 1..Len(results) |->
                Entry(results[j].k, PyBool(results[j].v.success))]
    IN  IF ~AllTruthy(success_status)
        THEN Ok(<<Inc("Operation success status mismatch",
                      Keys(success_status), <<>>, Values(success_status),
                      0, 0)>>)
        ELSE Ok(<<>>)

(***************************************************************************)
(* _compare_results                                                        *)
(***************************************************************************)
\* variant: an unregistered tag falls back to the delete comparator
ComparatorDefaultDelete(op, results) ==
    CASE op \in {"insert", "batch_insert"} -> _compare_insert_results(results)
      [] op = "search" -> _compare_search_results(results)
      [] op = "batch_search" -> _compare_batch_search_results(results)
      [] op = "mixed_operations" -> _compare_mixed_operation_results(results)
      [] OTHER -> _compare_delete_results(results)

\* self.result_comparators.get(operation, self._compare_generic_results)
Comparator(op, results) ==
    CASE op = "insert" -> _compare_insert_results(results)
      [] op = "search" -> _compare_search_results(results)
      [] op = "delete" -> _compare_delete_results(results)
      [] op = "batch_insert" -> _compare_insert_results(results)
      [] op = "batch_search" -> _compare_batch_search_results(results)
      [] op = "mixed_operations" -> _compare_mixed_operation_results(results)
      [] OTHER -> _compare_generic_results(results)

Succeeded(e) == e.v.success
Failed(e) == ~e.v.success

\* variant: the rule tests failed_results only
SuccessFailureAnyFailed(results) ==
    LET successful_results == SelectSeq(results, Succeeded)
        failed_results == SelectSeq(results, Failed)
    IN  IF failed_results # <<>>
        THEN <<Inc("Some databases succeeded while others failed",
                   Keys(successful_results), Keys(failed_results), <<>>, 0, 0)>>
        ELSE <<>>

\* the success/failure rule of lines 203-211
SuccessFailure(results) ==
    LET successful_results == SelectSeq(results, Succeeded)
        failed_results == SelectSeq(results, Failed)
    IN  IF successful_results # <<>> /\ failed_results # <<>>
        THEN <<Inc("Some databases succeeded while others failed",
                   Keys(successful_results), Keys(failed_results), <<>>, 0, 0)>>
        ELSE <<>>

\* variant: the comparator of the operation runs from one success on
CompareResultsFromOne(op, results) ==
    LET successful_results == SelectSeq(results, Succeeded)
        first == SuccessFailure(results)
    IN  IF Len(successful_results) < 1 THEN Ok(first)
        ELSE LET operation_inconsistencies == Comparator(op, successful_results)
             IN  IF operation_inconsistencies.exc # ""
                 THEN Raise(operation_inconsistencies.exc)
                 ELSE Ok(first \o operation_inconsistencies.out)

\* lines 198-222
_compare_results(op, results) ==
    LET successful_results == SelectSeq(results, Succeeded)
        first == SuccessFailure(results)
    IN  IF Len(successful_results) < 2 THEN Ok(first)
        ELSE LET operation_inconsistencies == Comparator(op, successful_results)
             IN  IF operation_inconsistencies.exc # ""
                 THEN Raise(operation_inconsistencies.exc)
                 ELSE Ok(first \o operation_inconsistencies.out)

(***************************************************************************)
(* What the clients may answer.  A client method returns the JSON its      *)
(* backend sent (or a canned payload), or raises.                          *)
(***************************************************************************)
StrList(q) == PyList([j \in 1..Len(q) |-> PyStr(q[j])])
IntList(q) == PyList([j \in 1..Len(q) |-> PyInt(q[j])])
IdObjects(q) == PyList([j \in 1..Len(q) |-> PyDict(<<KV("id", PyInt(q[j]))>>)])

InsertPayloads ==
    { PyDict(<<KV("status", PyStr("success")), KV("insert_count", PyInt(5)),
               KV("insert_ids", PyList(<<>>))>>),
      PyDict(<<KV("insert_count", PyInt(5))>>),
      PyDict(<<KV("insert_count", PyInt(4))>>),
      PyDict(<<KV("insert_count", PyBool(TRUE))>>),
      PyDict(<<KV("insert_count", IntList(<<5>>))>>),
      PyDict(<<KV("status", PyStr("success"))>>),
      PyDict(<<KV("status", PyStr("success")),
               KV("insert_ids", StrList(<<"a", "b", "c", "d">>))>>),
      PyDict(<<KV("status", PyStr("ok")), KV("insert_ids", PyNone)>>),
      PyDict(<<KV("ids", StrList(<<"a", "b">>))>>),
      PyDict(<<KV("insert_ids", StrList(<<"a", "b">>))>>),
      PyDict(<<KV("code", PyInt(0))>>),
      PyNone }

DeletePayloads ==
    { PyDict(<<KV("status", PyStr("success"))>>),
      PyDict(<<KV("status", PyStr("SUCCESS"))>>),
      PyDict(<<KV("status", PyStr("ok"))>>),
      PyDict(<<KV("status", PyStr("Completed"))>>),
      PyDict(<<KV("status", PyStr("error"))>>),
      PyDict(<<KV("status", PyStr("partial_success")),
               KV("results", PyList(<<>>))>>),
      PyDict(<<KV("status", PyInt(200))>>),
      PyDict(<<KV("success", PyBool(TRUE))>>),
      PyDict(<<KV("success", PyBool(FALSE))>>),
      PyDict(<<KV("code", PyInt(0))>>),
      PyNone }

SearchPayloads ==
    { PyDict(<<KV("data", IdObjects(<<1, 2, 3>>))>>),
      PyDict(<<KV("data", PyList(<<>>))>>),
      PyDict(<<KV("ids", StrList(<<"1", "2", "9">>))>>),
      PyDict(<<KV("ids", IntList(<<1, 1, 2>>))>>),
      PyDict(<<KV("result", PyDict(<<KV("ids", IntList(<<9, 10, 11>>))>>)),
               KV("status", PyStr("ok"))>>),
      PyDict(<<KV("result", IdObjects(<<1>>))>>),
      PyDict(<<KV("Get", PyDict(<<KV("TestCollection", PyList(<<
                  PyDict(<<KV("_additional", PyDict(<<KV("id", PyStr("1"))>>))>>),
                  PyDict(<<KV("_additional", PyDict(<<KV("id", PyStr("9"))>>))>>)
               >>))>>))>>),
      PyDict(<<KV("Get", PyNone)>>),
      PyDict(<<KV("points", IdObjects(<<1, 2>>))>>),
      PyDict(<<KV("points", IntList(<<5>>))>>),
      StrList(<<"1", "2", "3", "4">>),
      PyList(<<StrList(<<"9", "10">>), StrList(<<"11">>)>>),
      PyNone }

BatchSearchPayloads ==
    { PyDict(<<KV("data", IdObjects(<<1, 2, 3>>))>>),
      PyDict(<<KV("ids", IntList(<<9, 10, 11>>))>>),
      PyDict(<<KV("data", PyList(<<>>))>>) }

MixedPayloads(method) ==
    CASE method = "insert_vectors" ->
            {PyDict(<<KV("status", PyStr("success")),
                      KV("insert_count", PyInt(1))>>)}
      [] method = "search_vectors" -> {PyDict(<<KV("data", PyList(<<>>))>>)}
      [] OTHER -> {PyDict(<<KV("status", PyStr("success"))>>)}

\* the payloads a call of `method` made for operation `op` may return
Returns(op, method) ==
    CASE op \in {"insert", "batch_insert"} -> InsertPayloads
      [] op = "search" -> SearchPayloads
      [] op = "delete" -> DeletePayloads
      [] op = "batch_search" -> BatchSearchPayloads
      [] OTHER -> MixedPayloads(method)

\* str(e) of the exceptions a client call may raise
ClientErrors == {"Timeout", "Cannot connect to host"}

(***************************************************************************)
(* _safe_execute, one asyncio task per client.  A task runs without        *)
(* interruption from one await to the next; the only awaits are the calls  *)
(* of the client's methods.                                                *)
(***************************************************************************)
SingleCall == {"insert", "search", "delete", "batch_insert"}

\* the client method the operation calls at position idx of its loop
MethodOf(op, inp, idx) ==
    CASE op \in {"insert", "batch_insert"} -> "insert_vectors"
      [] op \in {"search", "batch_search"} -> "search_vectors"
      [] op = "delete" -> "delete_vectors"
      [] OTHER -> inp.operations[idx].type \o "_vectors"

\* the sub-operation types the mixed loop calls a method for (lines 159-170)
CalledTypes == {"insert", "search", "delete"}

\* the task returns the successful DatabaseResult (lines 177-184)
Finished(n, data) ==
    [task |-> Task("done", 0, <<>>, DatabaseResult(n, TRUE, data, "")),
     call |-> <<>>]

\* the task returns the failed DatabaseResult (lines 186-196)
Caught(n, error) ==
    [task |-> Task("done", 0, <<>>, DatabaseResult(n, FALSE, PyNone, error)),
     call |-> <<>>]

\* the task issues a client call and is suspended in its await
Suspended(op, inp, idx, data) ==
    [task |-> Task("awaiting", idx, data, NoResult),
     call |-> <<Call(MethodOf(op, inp, idx), "pending", PyNone, "")>>]

\* the loops of batch_search (lines 148-152) and mixed_operations (lines
\* 158-172) from position `from` on, up to the next await or to the end
RECURSIVE Continue(_, _, _, _, _)
Continue(n, op, inp, from, data) ==
    IF op = "batch_search" THEN
        IF from > inp.query_vectors THEN Finished(n, PyList(data))
        ELSE Suspended(op, inp, from, data)
    ELSE
        IF from > Len(inp.operations) THEN Finished(n, PyList(data))
        ELSE IF inp.operations[from].type \notin CalledTypes
            THEN Continue(n, op, inp, from + 1, data)
        ELSE IF ~inp.operations[from].complete
            THEN Caught(n, "KeyError")
        ELSE Suspended(op, inp, from, data)

\* variant: the input is read with inputs.get(key, []), a missing key is an
\* empty list
BeginWithDefaults(n, op, inp) ==
    IF op \notin Operations
        THEN Caught(n, "Unknown operation: " \o op)
    ELSE IF op \in SingleCall THEN Suspended(op, inp, 0, <<>>)
    ELSE Continue(n, op, inp, 1, <<>>)

\* from the start of _safe_execute to its first await (lines 98-175)
Begin(n, op, inp) ==
    IF op \notin Operations
        THEN Caught(n, "Unknown operation: " \o op)
    ELSE IF ~inp.has_key
        THEN Caught(n, "'" \o RequiredKey(op) \o "'")
    ELSE IF op \in SingleCall THEN Suspended(op, inp, 0, <<>>)
    ELSE Continue(n, op, inp, 1, <<>>)

\* variant: the result of a sub-call is collected only when it is truthy
\* under its 'data' key, so an empty search answer leaves no entry
ResumeDropsEmpty(n, op, inp, task, payload) ==
    IF op \in SingleCall THEN Finished(n, payload)
    ELSE IF HasKey(payload, "data") /\ ~Truthy(GetItem(payload, "data"))
        THEN Continue(n, op, inp, task.idx + 1, task.data)
    ELSE IF op = "batch_search"
        THEN Continue(n, op, inp, task.idx + 1, Append(task.data, payload))
    ELSE Continue(n, op, inp, task.idx + 1,
                  Append(task.data,
                         PyDict(<<KV("operation",
                                     PyStr(inp.operations[task.idx].type)),
                                  KV("result", payload)>>)))

\* the awaited call returned payload: from there to the next await
Resume(n, op, inp, task, payload) ==
    IF op \in SingleCall THEN Finished(n, payload)
    ELSE IF op = "batch_search"
        THEN Continue(n, op, inp, task.idx + 1, Append(task.data, payload))
    ELSE Continue(n, op, inp, task.idx + 1,
                  Append(task.data,
                         PyDict(<<KV("operation",
                                     PyStr(inp.operations[task.idx].type)),
                                  KV("result", payload)>>)))

\* the call log of a client once its pending call has settled
Settle(log, outcome, ret, err) ==
    [log EXCEPT ![Len(log)] = Call(log[Len(log)].method, outcome, ret, err)]

(***************************************************************************)
(* TestResult                                                              *)
(***************************************************************************)
TestResult(test_id, op, inp, results, incs, execution_time) ==
    [test_id |-> test_id, operation |-> op, inputs |-> inp,
     results |-> results, inconsistencies |-> incs,
     execution_time |-> execution_time]
NoTestResult == TestResult("", "", MkInputs(FALSE, 0, <<>>), <<>>, <<>>, <<>>)
TestId == "test_0000"

(***************************************************************************)
(* The state machine.  pc is the position of run_test: "start" before the  *)
(* call, "gathering" while it awaits asyncio.gather, "done" once it has    *)
(* returned the TestResult, "raised" when an exception left it.            *)
(***************************************************************************)
\* no second run_test invocation was made
NoSecond ==
    /\ operation2 = ""
    /\ inputs2 = MkInputs(FALSE, 0, <<>>)
    /\ pc2 = "none"
    /\ tasks2 = [n \in Names |-> Task("none", 0, <<>>, NoResult)]
    /\ calls2 = [n \in Names |-> <<>>]
    /\ db_results2 = <<>>
    /\ inconsistencies2 = <<>>
    /\ test_result2 = NoTestResult

\* no direct call of the extractor was made
NoExtraction ==
    /\ argument = PyNone
    /\ extracted = Ok(<<>>)
    /\ unwrapped = 0

\* no call of the fuzz generator was made
NoGeneration ==
    /\ params = PyDict(<<>>)
    /\ scenario = ""

\* a client as DatabaseClient.__init__ leaves it (db_clients.py lines
\* 21-24): no session; api_version and mock_mode are attributes the Milvus
\* client sets later, "" and FALSE stand for "not set" (every reader uses
\* getattr with these defaults).  health and local are what the backend
\* answered to connect(); connect, cleanup and disconnect tell how the last
\* call of that method ended; setups counts the calls of
\* setup_test_collection and first is <<api_version, mock_mode>> after the
\* first of them.
FreshAdapter ==
    [session |-> "none", api_version |-> "", mock_mode |-> FALSE,
     health |-> "", local |-> FALSE, connect |-> "", setups |-> 0,
     first |-> <<"", FALSE>>, cleanup |-> "", disconnect |-> ""]

\* main() is not running
NoLifecycle ==
    /\ adapters = [n \in Names |-> FreshAdapter]
    /\ driver = [pc |-> "none", at |-> 0]

Init ==
    /\ operation \in Operations \cup {UnknownOperation}
    /\ inputs \in InputsFor(operation)
    /\ pc = "start"
    /\ tasks = [n \in Names |-> Task("none", 0, <<>>, NoResult)]
    /\ calls = [n \in Names |-> <<>>]
    /\ db_results = <<>>
    /\ inconsistencies = <<>>
    /\ test_result = NoTestResult
    /\ NoSecond
    /\ NoExtraction
    /\ NoGeneration
    /\ NoLifecycle

\* run_test up to the await of gather: every task is created (lines 41-71)
Dispatch ==
    /\ pc = "start"
    /\ pc' = "gathering"
    /\ tasks' = [n \in Names |-> Task("pending", 0, <<>>, NoResult)]
    /\ UNCHANGED <<operation, inputs, calls, db_results, inconsistencies,
                   test_result, second, extraction, generation,
                   lifecycle>>

\* the event loop starts the task of client n
TaskStart(n) ==
    /\ pc = "gathering"
    /\ tasks[n].st = "pending"
    /\ LET r == Begin(n, operation, inputs)
       IN  /\ tasks' = [tasks EXCEPT ![n] = r.task]
           /\ calls' = [calls EXCEPT ![n] = @ \o r.call]
    /\ UNCHANGED <<operation, inputs, pc, db_results, inconsistencies,
                   test_result, second, extraction, generation,
                   lifecycle>>

\* the call client n is awaiting returns payload
CallReturn(n, payload) ==
    /\ pc = "gathering"
    /\ tasks[n].st = "awaiting"
    /\ payload \in Returns(operation, calls[n][Len(calls[n])].method)
    /\ LET r == Resume(n, operation, inputs, tasks[n], payload)
       IN  /\ tasks' = [tasks EXCEPT ![n] = r.task]
           /\ calls' = [calls EXCEPT
                          ![n] = Settle(@, "returned", payload, "") \o r.call]
    /\ UNCHANGED <<operation, inputs, pc, db_results, inconsistencies,
                   test_result, second, extraction, generation,
                   lifecycle>>

\* variant: the loops of batch_search and mixed_operations go on with the
\* next sub-call after one has raised
CallRaiseGoesOn(n, error) ==
    /\ pc = "gathering"
    /\ tasks[n].st = "awaiting"
    /\ LET r == IF operation \in SingleCall THEN Caught(n, error)
                ELSE Continue(n, operation, inputs, tasks[n].idx + 1,
                              tasks[n].data)
       IN  /\ tasks' = [tasks EXCEPT ![n] = r.task]
           /\ calls' = [calls EXCEPT
                          ![n] = Settle(@, "raised", PyNone, error) \o r.call]
    /\ UNCHANGED <<operation, inputs, pc, db_results, inconsistencies,
                   test_result, second, extraction, generation,
                   lifecycle>>

\* the call client n is awaiting raises an exception whose text is error
CallRaise(n, error) ==
    /\ pc = "gathering"
    /\ tasks[n].st = "awaiting"
    /\ tasks' = [tasks EXCEPT ![n] = Caught(n, error).task]
    /\ calls' = [calls EXCEPT ![n] = Settle(@, "raised", PyNone, error)]
    /\ UNCHANGED <<operation, inputs, pc, db_results, inconsistencies,
                   test_result, second, extraction, generation,
                   lifecycle>>

\* variant: waiting for the first task only (FIRST_COMPLETED)
AnySettled == \E n \in Names : tasks[n].st = "done"

\* gather(..., return_exceptions=True) completes when every task is done
AllSettled == \A n \in Names : tasks[n].st = "done"

\* variant: only the clients that succeeded get an entry
GatheredSuccessfulOnly ==
    SelectSeq([j \in 1..Len(Clients) |->
                  Entry(Clients[j], tasks[Clients[j]].result)], Succeeded)

\* variant: gather without return_exceptions, one failure fails every client
GatheredFailFast ==
    [j \in 1..Len(Clients) |->
        Entry(Clients[j],
              IF \E n \in Names : ~tasks[n].result.success
              THEN DatabaseResult(Clients[j], FALSE, PyNone, "Gather error")
              ELSE tasks[Clients[j]].result)]

\* variant: the results are paired with the names one position off, as they
\* would be if gather returned them in an order other than that of the tasks
GatheredShifted ==
    [j \in 1..Len(Clients) |->
        Entry(Clients[j], tasks[Clients[(j % Len(Clients)) + 1]].result)]

\* the db_results dict built from the gathered results (lines 73-86).  A
\* task's result is always a DatabaseResult: _safe_execute catches every
\* Exception, so the isinstance(result, Exception) branch of lines 76-82 is
\* never taken, and gather(..., return_exceptions=True) raises nothing on
\* behalf of its tasks, so neither is the except branch of lines 87-94.
Gathered ==
    [j \in 1..Len(Clients) |-> Entry(Clients[j], tasks[Clients[j]].result)]

\* run_test from the completion of gather to its return (lines 71-86, 47-58)
Collect ==
    /\ pc = "gathering"
    /\ AllSettled
    /\ LET results == Gathered
           compared == _compare_results(operation, results)
       IN  /\ db_results' = results
           /\ IF compared.exc # ""
              THEN /\ pc' = "raised"
                   /\ UNCHANGED <<inconsistencies, test_result>>
              ELSE /\ pc' = "done"
                   /\ inconsistencies' = compared.out
                   /\ test_result' =
                        TestResult(TestId, operation, inputs,
                           [j \in 1..Len(results) |->
                               Entry(results[j].k, results[j].v.data)],
                           compared.out,
                           [j \in 1..Len(results) |->
                               Entry(results[j].k, Elapsed)])
    /\ UNCHANGED <<operation, inputs, tasks, calls, second, extraction, generation,
                   lifecycle>>

Next ==
    \/ Dispatch
    \/ \E n \in Names : TaskStart(n)
    \/ \E n \in Names : \E payload \in InsertPayloads \cup DeletePayloads
                            \cup SearchPayloads : CallReturn(n, payload)
    \/ \E n \in Names : \E error \in ClientErrors : CallRaise(n, error)
    \/ Collect

Spec == Init /\ [][Next]_vars

(***************************************************************************)
(* Properties.                                                             *)
(***************************************************************************)
Returned == pc = "done"
SucceededNames == {db_results[j].k : j \in {i \in 1..Len(db_results) : db_results[i].v.success}}
FailedNames == {db_results[j].k : j \in {i \in 1..Len(db_results) : ~db_results[i].v.success}}
Successful == SelectSeq(db_results, Succeeded)
CountKind(kind) ==
    Cardinality({j \in 1..Len(inconsistencies) : inconsistencies[j].kind = kind})
HasRaised(n) == \E j \in 1..Len(calls[n]) : calls[n][j].outcome = "raised"

\* C1: the results map and the execution_time map of the TestResult that
\* run_test returns have exactly one entry per configured client, whatever
\* the operation tag, the input and the clients' successes and failures.
C1_OneEntryPerAdapter ==
    Returned =>
        /\ Keys(test_result.results) = Clients
        /\ Keys(test_result.execution_time) = Clients
        /\ \A i, j \in 1..Len(Clients) : Clients[i] = Clients[j] => i = j

C1_Witness ==
    /\ Returned
    /\ SucceededNames # {}
    /\ FailedNames # {}
    /\ \E n \in Names : HasRaised(n)

\* what the calls of client n alone determine: the payloads they returned
PayloadsOf(data) ==
    IF operation \in SingleCall THEN <<data>>
    ELSE IF operation = "batch_search" THEN data.l
    ELSE [j \in 1..Len(data.l) |-> GetItem(data.l[j], "result")]
OwnReturns(n) == [j \in 1..Len(calls[n]) |-> calls[n][j].ret]
OwnError(n) ==
    calls[n][CHOOSE j \in 1..Len(calls[n]) : calls[n][j].outcome = "raised"].err
InputComplete ==
    /\ operation \in Operations
    /\ inputs.has_key
    /\ \A j \in 1..Len(inputs.operations) : inputs.operations[j].complete
RecordedAsOwn(n, result) ==
    /\ result.database = n
    /\ HasRaised(n) => /\ ~result.success
                       /\ result.data = PyNone
                       /\ result.error = OwnError(n)
    /\ (~HasRaised(n) /\ InputComplete) =>
            /\ result.success
            /\ PayloadsOf(result.data) = OwnReturns(n)
StepOfOne ==
    pc = "gathering" /\ pc' = "gathering" =>
        \A n, m \in Names :
            (n # m /\ (tasks'[n] # tasks[n] \/ calls'[n] # calls[n]))
                => (tasks'[m] = tasks[m] /\ calls'[m] = calls[m])

\* C2: an error raised inside the call of one client becomes the failed
\* DatabaseResult of that client only: it does not leave run_test, the step
\* that handles it touches no other client's task or call, and the success
\* flag and payload recorded for every client are those of its own calls.
C2_PerAdapterIsolation ==
    /\ [](\A n \in Names :
            /\ tasks[n].st = "done" => RecordedAsOwn(n, tasks[n].result)
            /\ db_results # <<>> => RecordedAsOwn(n, Lookup(db_results, n))
            /\ (Returned /\ HasRaised(n)) => Lookup(test_result.results, n) = PyNone
            /\ (pc = "raised" /\ HasRaised(n)) => Cardinality(SucceededNames) >= 2)
    /\ [][StepOfOne]_vars

C2_Witness ==
    /\ Returned
    /\ \E n, m \in Names :
          /\ HasRaised(n)
          /\ ~HasRaised(m)
          /\ Lookup(db_results, m).success
          /\ Lookup(db_results, m).data # PyNone
          /\ calls[m][Len(calls[m])].outcome = "returned"

\* C3: run_test compares and returns only once every dispatched call has
\* settled: no call is left pending or cancelled, and the result is never
\* built from a subset of the clients.
C3_WaitAll ==
    pc \in {"done", "raised"} =>
        /\ \A n \in Names :
              /\ tasks[n].st = "done"
              /\ \A j \in 1..Len(calls[n]) : calls[n][j].outcome \in {"returned", "raised"}
              /\ Lookup(db_results, n) = tasks[n].result
              /\ tasks[n].result # NoResult
        /\ Len(db_results) = Len(Clients)

C3_Witness ==
    /\ Returned
    /\ \A n \in Names : Len(calls[n]) >= 2
    /\ \E n \in Names : HasRaised(n)

InOrder(S) == SelectSeq(Clients, LAMBDA n : n \in S)
KindSuccessFailure == "Some databases succeeded while others failed"

\* C4: whenever _compare_results returns, its list holds exactly one
\* success/failure entry if at least one client succeeded and at least one
\* failed, and none otherwise; the entry is the first of the list and names
\* every succeeded and every failed client.
C4_SuccessFailureRule ==
    Returned =>
        IF SucceededNames # {} /\ FailedNames # {}
        THEN /\ CountKind(KindSuccessFailure) = 1
             /\ inconsistencies[1].kind = KindSuccessFailure
             /\ inconsistencies[1].names = InOrder(SucceededNames)
             /\ inconsistencies[1].others = InOrder(FailedNames)
        ELSE CountKind(KindSuccessFailure) = 0

C4_Witness ==
    /\ Returned
    /\ Cardinality(SucceededNames) >= 2
    /\ FailedNames # {}
    /\ Len(inconsistencies) >= 2
    /\ inconsistencies[1].kind = KindSuccessFailure

\* C5: the comparison never throws: no exception raised while comparing
\* leaves run_test, whatever the payloads of the successful clients.
C5_CompareNeverThrows == pc # "raised"

KindSearch == "Search results differ significantly"
Flagged(kind, ref, db) ==
    Cardinality({j \in 1..Len(inconsistencies) :
                    /\ inconsistencies[j].kind = kind
                    /\ inconsistencies[j].names = <<ref>>
                    /\ inconsistencies[j].others = <<db>>})

\* C6: for search with at least two successful clients, with R the id set
\* of the first successful client and S that of any other successful client,
\* one inconsistency naming the pair is emitted if and only if R and S are
\* both non-empty and |R \cap S| / max(|R|, |S|) is below one half; no other
\* pair is named.
C6_SearchOverlap ==
    (Returned /\ operation = "search" /\ Len(Successful) >= 2) =>
        LET ref == Successful[1].k
            R == IdSet(Successful[1].v.data)
        IN  /\ \A j \in 2..Len(Successful) :
                  LET S == IdSet(Successful[j].v.data)
                      larger == IF Cardinality(R) >= Cardinality(S)
                                THEN Cardinality(R) ELSE Cardinality(S)
                  IN  Flagged(KindSearch, ref, Successful[j].k) =
                        (IF R # {} /\ S # {} /\ 2 * Cardinality(R \cap S) < larger
                         THEN 1 ELSE 0)
            /\ CountKind(KindSearch) =
                  Cardinality({j \in 2..Len(Successful) :
                                  Flagged(KindSearch, ref, Successful[j].k) = 1})

C6_Witness ==
    /\ Returned
    /\ operation = "search"
    /\ Len(Successful) >= 3
    /\ IdSet(Successful[1].v.data) = {"1", "2", "3"}
    /\ IdSet(Successful[2].v.data) = {"1", "2", "9"}
    /\ IdSet(Successful[3].v.data) = {"9", "10", "11"}
    /\ Flagged(KindSearch, Successful[1].k, Successful[2].k) = 0
    /\ Flagged(KindSearch, Successful[1].k, Successful[3].k) = 1

\* the accepted-count the insert comparator is said to give a payload
IdListOf(data) ==
    IF HasKey(data, "insert_ids") /\ IsList(GetItem(data, "insert_ids"))
        THEN <<GetItem(data, "insert_ids")>>
    ELSE IF HasKey(data, "ids") /\ IsList(GetItem(data, "ids"))
        THEN <<GetItem(data, "ids")>>
    ELSE <<>>
StatedCount(data) ==
    IF IsDict(data) /\ HasKey(data, "insert_count")
        THEN GetItem(data, "insert_count")
    ELSE IF IsDict(data) /\ IdListOf(data) # <<>>
        THEN PyInt(Len(IdListOf(data)[1].l))
    ELSE PyInt(1)
InsertOp == operation \in {"insert", "batch_insert"}

\* C7: in the insert comparator every successful client is given a count:
\* the insert-count field if present, otherwise the length of the returned
\* id list, otherwise 1, whatever the shape of the payload.
C7_EveryAdapterCounted ==
    (Returned /\ InsertOp /\ Len(Successful) >= 2) =>
        LET success_counts == InsertCounts(Successful).out
        IN  /\ Keys(success_counts) = Keys(Successful)
            /\ \A j \in 1..Len(success_counts) :
                  success_counts[j].v = StatedCount(Successful[j].v.data)

KindInsert == "Insert count mismatch"

\* C8: with at least two successful clients on insert or batch_insert, the
\* comparator emits exactly one count-mismatch inconsistency, listing every
\* count it derived, if and only if those counts take more than one
\* distinct value, and none when they are all equal.
C8_InsertCountMismatch ==
    (Returned /\ InsertOp /\ Len(Successful) >= 2) =>
        LET success_counts == InsertCounts(Successful).out
            differ == \E i, j \in 1..Len(success_counts) :
                          PyKey(success_counts[i].v) # PyKey(success_counts[j].v)
        IN  /\ CountKind(KindInsert) = (IF differ THEN 1 ELSE 0)
            /\ Len(inconsistencies) =
                  CountKind(KindInsert) + CountKind(KindSuccessFailure)
            /\ differ =>
                  LET inc == inconsistencies[Len(inconsistencies)]
                  IN  /\ inc.names = Keys(success_counts)
                      /\ inc.vals = Values(success_counts)

C8_Witness ==
    /\ Returned
    /\ InsertOp
    /\ Len(Successful) >= 2
    /\ CountKind(KindInsert) = 1
    /\ \E i, j \in 1..Len(Successful) :
          /\ DictGet(Successful[i].v.data, "insert_count", PyNone) = PyInt(5)
          /\ DictGet(Successful[j].v.data, "insert_count", PyNone) = PyInt(4)
          /\ PyInt(5) \in SeqToSet(inconsistencies[Len(inconsistencies)].vals)
          /\ PyInt(4) \in SeqToSet(inconsistencies[Len(inconsistencies)].vals)

\* the boolean the delete comparator is said to derive from a payload
StatedDeleteSuccess(data) ==
    IF IsDict(data) /\ HasKey(data, "status")
        THEN PyBool(/\ IsStr(GetItem(data, "status"))
                    /\ Lower(GetItem(data, "status").s) \in SuccessWords)
    ELSE IF IsDict(data) /\ HasKey(data, "success")
        THEN GetItem(data, "success")
    ELSE PyBool(TRUE)
KindDelete == "Delete operation status mismatch"
DeleteCompared == Returned /\ operation = "delete" /\ Len(Successful) >= 2

\* C9: the delete comparator derives for each successful client: true iff
\* the status field is 'success', 'ok' or 'completed' in any letter case;
\* without a status field, the value of the boolean success field; and true
\* when the payload has neither field.
C9_DeleteBooleanRule ==
    DeleteCompared =>
        LET success_status == DeleteStatuses(Successful).out
        IN  \A j \in 1..Len(Successful) :
                success_status[j].v = StatedDeleteSuccess(Successful[j].v.data)

\* C10 as stated: the delete comparator emits exactly one inconsistency if
\* and only if the derived booleans are not all equal, and none when they
\* all agree, be it on true or on false.
C10_EmitsIffDisagree ==
    DeleteCompared =>
        LET success_status == DeleteStatuses(Successful).out
            disagree == \E i, j \in 1..Len(success_status) :
                            success_status[i].v # success_status[j].v
        IN  CountKind(KindDelete) = (IF disagree THEN 1 ELSE 0)

\* C10 amended: whenever the delete comparator returns, it emits exactly
\* one inconsistency, listing the derived boolean of every successful
\* client, if and only if at least one derived boolean is false (also when
\* all of them are false), and none when all of them are true.
C10_EmitsIffSomeFalse ==
    DeleteCompared =>
        LET success_status == DeleteStatuses(Successful).out
            some_false == \E j \in 1..Len(success_status) :
                              success_status[j].v = PyBool(FALSE)
        IN  /\ CountKind(KindDelete) = (IF some_false THEN 1 ELSE 0)
            /\ Len(inconsistencies) =
                  CountKind(KindDelete) + CountKind(KindSuccessFailure)
            /\ some_false =>
                  LET inc == inconsistencies[Len(inconsistencies)]
                  IN  /\ inc.names = Keys(Successful)
                      /\ inc.vals = Values(success_status)

C10_Witness ==
    /\ DeleteCompared
    /\ \A j \in 1..Len(Successful) :
          DictGet(Successful[j].v.data, "status", PyNone) = PyStr("error")
    /\ CountKind(KindDelete) = 1
    /\ \A j \in 1..Len(Successful) :
          inconsistencies[Len(inconsistencies)].vals[j] = PyBool(FALSE)

(***************************************************************************)
(* _compare_results called by itself: the results dict it is handed is     *)
(* drawn at the start, of any size up to the number of clients and with    *)
(* any payloads, and one step applies the comparison.  pc is "comparing"   *)
(* before the call, "compared" when it returned and "compare_raised" when  *)
(* an exception left it.                                                   *)
(***************************************************************************)
\* one entry of the list _safe_execute builds for mixed_operations (line 172)
MixedEntry ==
    PyDict(<<KV("operation", PyStr("delete")),
             KV("result", PyDict(<<KV("status", PyStr("success"))>>))>>)

\* delete payloads: statuses that count as success and as failure, and one
\* that is not a str
CompareDeletePayloads ==
    { PyDict(<<KV("status", PyStr("success"))>>),
      PyDict(<<KV("status", PyStr("error"))>>),
      PyDict(<<KV("status", PyInt(200))>>) }

\* the payloads a successful DatabaseResult may carry into the comparison
ComparePayloads(op) ==
    CASE op \in {"insert", "batch_insert"} ->
            { PyDict(<<KV("insert_count", PyInt(5))>>),
              PyDict(<<KV("insert_count", PyInt(4))>>),
              PyDict(<<KV("insert_count", IntList(<<5>>))>>) }
      [] op = "search" ->
            { PyDict(<<KV("data", IdObjects(<<1, 2, 3>>))>>),
              PyDict(<<KV("ids", StrList(<<"1", "2", "9">>))>>),
              PyDict(<<KV("points", IntList(<<5>>))>>) }
      [] op = "delete" -> CompareDeletePayloads
      [] op = "batch_search" ->
            {PyList(q) : q \in SeqsUpTo(BatchSearchPayloads, MaxQueries)}
                \cup {PyNone}
      [] op = "mixed_operations" ->
            {PyList(q) : q \in SeqsUpTo({MixedEntry}, MaxOps)} \cup {PyNone}
      [] OTHER -> CompareDeletePayloads

\* what a results dict may hold for one client: success with a payload, or
\* failure
ResultOutcomes(op) ==
    {[success |-> TRUE, data |-> d, error |-> ""] : d \in ComparePayloads(op)}
        \cup {[success |-> FALSE, data |-> PyNone, error |-> "Timeout"]}

\* the results dict over the first k clients with the outcomes f
ResultDict(k, f) ==
    [j \in 1..k |->
        Entry(Clients[j],
              DatabaseResult(Clients[j], f[j].success, f[j].data, f[j].error))]

InitCompare ==
    /\ operation \in Operations \cup {UnknownOperation}
    /\ \E k \in 0..NumClients :
          \E f \in [1..k -> ResultOutcomes(operation)] :
              db_results = ResultDict(k, f)
    /\ pc = "comparing"
    /\ inputs = MkInputs(FALSE, 0, <<>>)
    /\ tasks = [n \in Names |-> Task("none", 0, <<>>, NoResult)]
    /\ calls = [n \in Names |-> <<>>]
    /\ inconsistencies = <<>>
    /\ test_result = NoTestResult
    /\ NoSecond
    /\ NoExtraction
    /\ NoGeneration
    /\ NoLifecycle

\* one call of _compare_results(operation, db_results) (lines 198-222)
Compare ==
    /\ pc = "comparing"
    /\ LET compared == _compare_results(operation, db_results)
       IN  IF compared.exc # ""
           THEN /\ pc' = "compare_raised"
                /\ UNCHANGED inconsistencies
           ELSE /\ pc' = "compared"
                /\ inconsistencies' = compared.out
    /\ UNCHANGED <<operation, inputs, tasks, calls, db_results, test_result,
                   second, extraction, generation,
                   lifecycle>>

NextCompare == Compare

SpecCompare == InitCompare /\ [][NextCompare]_vars

Compared == pc = "compared"
KindBatch == "Batch search results differ"
FlaggedAt(query_idx, ref, db) ==
    Cardinality({j \in 1..Len(inconsistencies) :
                    /\ inconsistencies[j].kind = KindBatch
                    /\ inconsistencies[j].idx = query_idx
                    /\ inconsistencies[j].names = <<ref>>
                    /\ inconsistencies[j].others = <<db>>})
IdSetAt(data, query_idx) ==
    IF IsList(data) /\ query_idx < Len(data.l)
    THEN IdSet(data.l[query_idx + 1]) ELSE {}

\* C11: for batch_search with at least two successful clients, with L the
\* length of the first successful client's result list, the overlap rule is
\* applied at every query index 0..L-1 to the first client and each other
\* one: one inconsistency naming the index and the pair is emitted if and
\* only if both id sets are non-empty and overlap below one half, where a
\* client whose list is not longer than the index counts as the empty set
\* (and so is never flagged there); nothing is emitted for an index >= L.
C11_BatchSearchPerIndex ==
    (Compared /\ operation = "batch_search" /\ Len(Successful) >= 2
        /\ IsList(Successful[1].v.data)) =>
        LET ref == Successful[1].k
            L == Len(Successful[1].v.data.l)
        IN  /\ \A q \in 0..(L - 1) : \A j \in 2..Len(Successful) :
                  LET R == IdSetAt(Successful[1].v.data, q)
                      S == IdSetAt(Successful[j].v.data, q)
                      larger == IF Cardinality(R) >= Cardinality(S)
                                THEN Cardinality(R) ELSE Cardinality(S)
                  IN  FlaggedAt(q, ref, Successful[j].k) =
                        (IF R # {} /\ S # {} /\ 2 * Cardinality(R \cap S) < larger
                         THEN 1 ELSE 0)
            /\ CountKind(KindBatch) =
                  Cardinality({c \in (0..(L - 1)) \X (2..Len(Successful)) :
                                  FlaggedAt(c[1], ref, Successful[c[2]].k) = 1})

\* the first client answered one query, a second none and a third two, and
\* the only inconsistency is that of index 0 between the first and the third
C11_Witness ==
    /\ Compared /\ operation = "batch_search" /\ Len(Successful) = 3
    /\ \A j \in 1..3 : IsList(Successful[j].v.data)
    /\ Len(Successful[1].v.data.l) = 1
    /\ Len(Successful[2].v.data.l) = 0
    /\ Len(Successful[3].v.data.l) = 2
    /\ FlaggedAt(0, Successful[1].k, Successful[3].k) = 1
    /\ IdSetAt(Successful[3].v.data, 1) # {}
    /\ CountKind(KindBatch) = 1

KindMixed == "Mixed operations execution count mismatch"
MixedCount(e) == IF IsList(e.v.data) THEN Len(e.v.data.l) ELSE 0

\* C12: for mixed_operations with at least two successful clients, the
\* count of a client is the length of its payload list, 0 when the payload
\* is not a list, and exactly one inconsistency, listing the clients and
\* their counts in order, is emitted if and only if the counts are not all
\* equal; the comparator emits nothing else.
C12_MixedCountMismatch ==
    (Compared /\ operation = "mixed_operations" /\ Len(Successful) >= 2) =>
        LET counts == [j \in 1..Len(Successful) |-> MixedCount(Successful[j])]
            differ == \E i, j \in 1..Len(Successful) : counts[i] # counts[j]
        IN  /\ CountKind(KindMixed) = (IF differ THEN 1 ELSE 0)
            /\ Len(inconsistencies) =
                  CountKind(KindSuccessFailure) + CountKind(KindMixed)
            /\ \A j \in 1..Len(inconsistencies) :
                  inconsistencies[j].kind = KindMixed =>
                      /\ inconsistencies[j].names = Keys(Successful)
                      /\ inconsistencies[j].vals =
                            [i \in 1..Len(Successful) |-> PyInt(counts[i])]

\* a payload that is not a list is counted 0 against a list of two entries
C12_Witness ==
    /\ Compared /\ operation = "mixed_operations" /\ Len(Successful) >= 2
    /\ \E i, j \in 1..Len(Successful) :
          /\ ~IsList(Successful[i].v.data)
          /\ MixedCount(Successful[j]) = 2
    /\ CountKind(KindMixed) = 1

\* C13: when fewer than two clients succeeded, no comparator of the
\* operation runs (so nothing is raised, whatever the payload) and the list
\* is exactly the success/failure entry when one client succeeded and at
\* least one failed, and empty when none succeeded or when the only client
\* of the dict succeeded.
C13_FewerThanTwoSuccesses ==
    (pc \in {"compared", "compare_raised"} /\ Len(Successful) < 2) =>
        /\ Compared
        /\ inconsistencies =
              (IF Len(Successful) = 1 /\ Len(db_results) > 1
               THEN <<Inc(KindSuccessFailure, Keys(Successful),
                          Keys(SelectSeq(db_results, Failed)), <<>>, 0, 0)>>
               ELSE <<>>)

\* one client succeeded with a delete payload whose status the delete
\* comparator cannot lower-case, the others failed
C13_Witness ==
    /\ Compared /\ operation = "delete"
    /\ Len(Successful) = 1 /\ Len(db_results) = NumClients
    /\ Successful[1].v.data = PyDict(<<KV("status", PyInt(200))>>)
    /\ Len(inconsistencies) = 1

KindGeneric == "Operation success status mismatch"
TagComparator(op, results) ==
    IF op \in {"insert", "batch_insert"} THEN _compare_insert_results(results)
    ELSE IF op = "search" THEN _compare_search_results(results)
    ELSE IF op = "batch_search" THEN _compare_batch_search_results(results)
    ELSE IF op = "delete" THEN _compare_delete_results(results)
    ELSE IF op = "mixed_operations"
         THEN _compare_mixed_operation_results(results)
    ELSE _compare_generic_results(results)

\* C14: with at least two successful clients, the outcome of the comparison
\* is that of the comparator registered for the operation tag (one for
\* insert and batch_insert, one each for search, batch_search, delete and
\* mixed_operations) applied to the successful results, after the
\* success/failure entry; for any other tag it is that of the generic
\* comparator, which looks at the success flags only: whatever the payloads,
\* nothing is raised and nothing is added.
C14_ComparatorByTag ==
    (pc \in {"compared", "compare_raised"} /\ Len(Successful) >= 2) =>
        LET expected == TagComparator(operation, Successful)
        IN  /\ expected.exc # "" => pc = "compare_raised"
            /\ expected.exc = "" =>
                  /\ Compared
                  /\ inconsistencies = SuccessFailure(db_results) \o expected.out
            /\ operation \notin Operations =>
                  /\ Compared
                  /\ CountKind(KindGeneric) = 0
                  /\ Len(inconsistencies) = CountKind(KindSuccessFailure)

\* an unregistered tag with payloads the delete comparator would reject
C14_Witness ==
    /\ Compared /\ operation = UnknownOperation /\ Len(Successful) >= 2
    /\ Successful[1].v.data = PyDict(<<KV("status", PyInt(200))>>)
    /\ Successful[2].v.data = PyDict(<<KV("status", PyStr("error"))>>)
    /\ Len(inconsistencies) = CountKind(KindSuccessFailure)

(***************************************************************************)
(* _extract_search_result_ids called by itself on one payload.  pc is      *)
(* "extracting" before the call, "extracted" when it returned and          *)
(* "extract_raised" when an exception left it.                             *)
(***************************************************************************)
MaxIds == 2
MaxDepth == 2

\* the identifiers a payload may carry
Ids == {PyInt(1), PyStr("a7"), PyInt(10)}
IdSeqs == SeqsUpTo(Ids, MaxIds)

\* the response formats the branches of the extractor name
Shapes == {"ids", "data", "Get", "points", "list", "lists"}
IdDicts(q) == PyList([j \in 1..Len(q) |-> PyDict(<<KV("id", q[j])>>)])
Shaped(shape, q) ==
    CASE shape = "ids" -> PyDict(<<KV("ids", PyList(q))>>)
      [] shape = "data" ->
            PyDict(<<KV("data", IdDicts(q))>>)
      [] shape = "Get" ->
            PyDict(<<KV("Get", PyDict(<<KV("TestCollection",
                PyList([j \in 1..Len(q) |->
                    PyDict(<<KV("_additional",
                                PyDict(<<KV("id", q[j])>>))>>)]))>>))>>)
      [] shape = "points" -> PyDict(<<KV("points", IdDicts(q))>>)
      [] shape = "list" -> PyList(q)
      [] shape = "lists" ->
            IF q = <<>> THEN PyList(<<PyList(<<>>)>>)
            ELSE PyList(<<PyList(<<Head(q)>>), PyList(Tail(q))>>)

\* a payload inside k 'result' wrappers
RECURSIVE Wrapped(_, _)
Wrapped(k, inner) ==
    IF k = 0 THEN inner
    ELSE PyDict(<<KV("result", Wrapped(k - 1, inner)),
                  KV("status", PyStr("ok"))>>)

\* payloads of no recognised shape, or whose recognised key holds something
\* else than the branch expects
OddPayloads ==
    { PyNone, PyInt(5), PyStr("a7"), PyBool(TRUE), PyDict(<<>>),
      PyDict(<<KV("code", PyInt(0))>>),
      PyDict(<<KV("data", PyInt(5))>>),
      PyDict(<<KV("data", PyList(<<PyInt(5), PyStr("a7")>>))>>),
      PyDict(<<KV("ids", PyNone)>>),
      PyDict(<<KV("ids", PyStr("a7"))>>),
      PyDict(<<KV("Get", PyNone)>>),
      PyDict(<<KV("Get", PyList(<<>>))>>),
      PyDict(<<KV("Get", PyDict(<<KV("TestCollection", PyNone)>>))>>),
      PyDict(<<KV("Get", PyDict(<<KV("TestCollection",
                  PyList(<<PyInt(5), PyDict(<<KV("id", PyInt(1))>>)>>))>>))>>),
      PyDict(<<KV("Get", PyDict(<<KV("TestCollection",
                  PyList(<<PyDict(<<KV("_additional", PyNone)>>)>>))>>))>>),
      PyDict(<<KV("Get", PyDict(<<KV("TestCollection",
                  PyList(<<PyDict(<<KV("_additional", PyStr("id"))>>)>>))>>))>>),
      PyDict(<<KV("points", PyNone)>>),
      PyDict(<<KV("points", PyList(<<PyInt(5)>>))>>),
      PyDict(<<KV("points", PyList(<<PyNone>>))>>),
      PyDict(<<KV("points", PyList(<<PyStr("id7")>>))>>),
      PyDict(<<KV("points", PyList(<<PyStr("a7")>>))>>),
      PyDict(<<KV("points", PyList(<<PyList(<<PyStr("id")>>)>>))>>) }

\* the keys the extractor recognises, in the order of its elif chain
\* (lines 396, 401, 404, 407, 417)
KeyOrder == <<"data", "ids", "result", "Get", "points">>

\* what one recognised key may hold: the identifiers q in the format of the
\* key, no identifier at all, or a value that is not a list
HeldBy(key, q) ==
    { IF key = "result" THEN Shaped("ids", q) ELSE GetItem(Shaped(key, q), key),
      IF key = "result" THEN Shaped("ids", <<>>)
                        ELSE GetItem(Shaped(key, <<>>), key),
      PyInt(5) }

\* dict payloads with two recognised keys, in either insertion order
ManyKeyPayloads ==
    UNION {{PyDict(<<KV(KeyOrder[c[1]], first), KV(KeyOrder[c[2]], other)>>) :
                first \in HeldBy(KeyOrder[c[1]], <<PyStr("a7")>>),
                other \in HeldBy(KeyOrder[c[2]], <<PyInt(1)>>)} :
           c \in {d \in (1..5) \X (1..5) : d[1] # d[2]}}

ExtractorPayloads ==
    {Wrapped(k, inner) :
        k \in 0..MaxDepth,
        inner \in {Shaped(shape, q) : shape \in Shapes, q \in IdSeqs}
                      \cup OddPayloads}
        \cup ManyKeyPayloads

InitExtract ==
    /\ argument \in ExtractorPayloads
    /\ extracted = Ok(<<>>)
    /\ unwrapped = 0
    /\ pc = "extracting"
    /\ operation = "search"
    /\ inputs = MkInputs(FALSE, 0, <<>>)
    /\ tasks = [n \in Names |-> Task("none", 0, <<>>, NoResult)]
    /\ calls = [n \in Names |-> <<>>]
    /\ db_results = <<>>
    /\ inconsistencies = <<>>
    /\ test_result = NoTestResult
    /\ NoSecond
    /\ NoGeneration
    /\ NoLifecycle

\* one call of _extract_search_result_ids(argument) (lines 390-434)
Extract ==
    /\ pc = "extracting"
    /\ extracted' = _extract_search_result_ids(argument)
    /\ unwrapped' = WrapperSteps(argument)
    /\ pc' = IF extracted'.exc # "" THEN "extract_raised" ELSE "extracted"
    /\ UNCHANGED <<operation, inputs, tasks, calls, db_results,
                   inconsistencies, test_result, second, argument,
                   generation, lifecycle>>

NextExtract == Extract

SpecExtract == InitExtract /\ [][NextExtract]_vars

RecognisedKeys == {"data", "ids", "result", "Get", "points"}
Unrecognised(data) ==
    \/ ~IsDict(data) /\ ~IsList(data)
    \/ IsDict(data) /\ \A k \in RecognisedKeys : ~HasKey(data, k)

\* C15: the extractor never raises: once called it has returned a list,
\* whatever the payload; the list is empty for a payload of no recognised
\* shape and for {"data": []}.
C15_ExtractorNeverRaises ==
    pc # "extracting" =>
        /\ pc = "extracted"
        /\ extracted.exc = ""
        /\ Unrecognised(argument) => extracted.out = <<>>
        /\ argument = PyDict(<<KV("data", PyList(<<>>))>>) =>
              extracted.out = <<>>

\* str() of each identifier of Ids
IdText(id) ==
    CASE id = PyInt(1) -> "1" [] id = PyStr("a7") -> "a7" [] id = PyInt(10) -> "10"

\* C16: for a payload of each supported shape carrying the identifiers q
\* ({'ids': q}, {'data': [{'id': ..}]}, the 'Get' format with the
\* identifier under '_additional', {'points': [{'id': ..}]}, a flat list
\* of identifiers, a list of lists) and for such a payload inside 'result'
\* wrappers, the extractor returns exactly the identifiers of q as strings,
\* in the order of q.
C16_ExtractsIdsInOrder ==
    \A shape \in Shapes, q \in IdSeqs, k \in 0..MaxDepth :
        (pc # "extracting" /\ argument = Wrapped(k, Shaped(shape, q))) =>
            /\ pc = "extracted"
            /\ extracted = Ok([j \in 1..Len(q) |-> IdText(q[j])])

\* a list of lists inside one wrapper, two identifiers in two sublists
C16_Witness ==
    /\ pc = "extracted"
    /\ argument = Wrapped(1, Shaped("lists", <<PyInt(10), PyStr("a7")>>))
    /\ extracted.out = <<"10", "a7">>

(***************************************************************************)
(* The await of gather itself failing: the except branch of                *)
(* _execute_on_all_databases (lines 87-94).  gather(...,                   *)
(* return_exceptions=True) raises nothing on behalf of its tasks, so the   *)
(* failure is injected: while run_test awaits gather, the await may raise  *)
(* an Exception whose text is e.                                           *)
(***************************************************************************)
GatherErrors == {"event loop is closed"}

\* variant: the clients whose task is done keep their result
GatherFailedKeepsSettled(e) ==
    [j \in 1..Len(Clients) |->
        Entry(Clients[j],
              IF tasks[Clients[j]].st = "done" THEN tasks[Clients[j]].result
              ELSE [DatabaseResult(Clients[j], FALSE, PyNone,
                                   "Gather error: " \o e)
                       EXCEPT !.execution_time = "0.0"])]

\* the dict of lines 89-94: execution_time keeps its default
GatherFailed(e) ==
    [j \in 1..Len(Clients) |->
        Entry(Clients[j],
              [DatabaseResult(Clients[j], FALSE, PyNone, "Gather error: " \o e)
                  EXCEPT !.execution_time = "0.0"])]

\* the await of line 71 raises e: lines 87-94, then run_test to its return
GatherRaise(e) ==
    /\ pc = "gathering"
    /\ db_results' = GatherFailed(e)
    /\ LET compared == _compare_results(operation, db_results')
       IN  IF compared.exc # ""
           THEN /\ pc' = "raised"
                /\ UNCHANGED <<inconsistencies, test_result>>
           ELSE /\ pc' = "done"
                /\ inconsistencies' = compared.out
                /\ test_result' =
                     TestResult(TestId, operation, inputs,
                        [j \in 1..Len(db_results') |->
                            Entry(db_results'[j].k, db_results'[j].v.data)],
                        compared.out,
                        [j \in 1..Len(db_results') |->
                            Entry(db_results'[j].k, Elapsed)])
    /\ UNCHANGED <<operation, inputs, tasks, calls, second, extraction, generation,
                   lifecycle>>

NextFault ==
    \/ Next
    \/ \E e \in GatherErrors : GatherRaise(e)

SpecFault == Init /\ [][NextFault]_vars

\* C17: when the await of gather raises, _execute_on_all_databases returns
\* one DatabaseResult per configured client, each failed, with payload None
\* and an error text containing 'Gather error', and run_test returns a
\* TestResult (one None payload per client, no inconsistency) instead of
\* raising.
C17_GatherFailureDegrades ==
    [][(\E e \in GatherErrors : GatherRaise(e)) =>
          /\ Keys(db_results') = Clients
          /\ \A j \in 1..Len(db_results') :
                /\ db_results'[j].v.database = Clients[j]
                /\ ~db_results'[j].v.success
                /\ db_results'[j].v.data = PyNone
                /\ StrContains(db_results'[j].v.error, "Gather error")
          /\ pc' = "done"
          /\ test_result'.test_id = TestId
          /\ test_result'.operation = operation
          /\ test_result'.results =
                [j \in 1..Len(Clients) |-> Entry(Clients[j], PyNone)]
          /\ test_result'.inconsistencies = <<>>]_vars

\* gather failed after one client had already succeeded and another was
\* still suspended in its call
C17_Witness ==
    /\ pc = "done"
    /\ \A j \in 1..Len(db_results) :
          StrContains(db_results[j].v.error, "Gather error")
    /\ \E n \in Names : tasks[n].st = "done" /\ tasks[n].result.success
    /\ \E n \in Names : tasks[n].st = "awaiting"
    /\ test_result.inconsistencies = <<>>

(***************************************************************************)
(* Termination of run_test.  No step can be repeated: each one starts a    *)
(* task, settles a call or ends run_test.  While run_test awaits gather    *)
(* some step is possible (a task to start, a call to settle, or Collect),  *)
(* so a run in which every call settles ends with run_test over, and how   *)
(* run_test ended is read off that final state.                            *)
(***************************************************************************)
CallPending(n) ==
    calls[n] # <<>> /\ calls[n][Len(calls[n])].outcome = "pending"
Over == pc \notin {"start", "gathering"}

\* C18: if every client call settles, run_test ends by returning a
\* TestResult; and run_test has not returned as long as some client call
\* has not settled.
C18_ReturnsIffCallsSettle ==
    /\ Over => (pc = "done" /\ test_result # NoTestResult)
    /\ pc = "done" => \A n \in Names : ~CallPending(n)

(***************************************************************************)
(* Two run_test invocations on the same DifferentialTester, interleaved.   *)
(* The tester holds self.clients and self.result_comparators, which        *)
(* run_test only reads; start_time, tasks, db_results, inconsistencies     *)
(* are locals of each invocation, so the second invocation has variables   *)
(* of its own and its steps are those of the first on these variables.     *)
(* Each client answers each call by itself.                                *)
(***************************************************************************)
first == <<operation, inputs, pc, tasks, calls, db_results, inconsistencies,
           test_result>>

TestId2 == "test_0001"

\* the answers the clients give in the interleaved runs
TwoPayloads ==
    { PyDict(<<KV("status", PyStr("success"))>>),
      PyDict(<<KV("status", PyStr("error"))>>),
      PyDict(<<KV("insert_count", PyInt(5))>>),
      PyDict(<<KV("insert_count", PyInt(4))>>) }
TwoErrors == {"Timeout"}

InitTwo ==
    /\ operation = "delete"
    /\ inputs \in InputsFor(operation)
    /\ pc = "start"
    /\ tasks = [n \in Names |-> Task("none", 0, <<>>, NoResult)]
    /\ calls = [n \in Names |-> <<>>]
    /\ db_results = <<>>
    /\ inconsistencies = <<>>
    /\ test_result = NoTestResult
    /\ operation2 = "insert"
    /\ inputs2 \in InputsFor(operation2)
    /\ pc2 = "start"
    /\ tasks2 = [n \in Names |-> Task("none", 0, <<>>, NoResult)]
    /\ calls2 = [n \in Names |-> <<>>]
    /\ db_results2 = <<>>
    /\ inconsistencies2 = <<>>
    /\ test_result2 = NoTestResult
    /\ NoExtraction
    /\ NoGeneration
    /\ NoLifecycle

\* the second run_test up to the await of gather (lines 41-71)
Dispatch2 ==
    /\ pc2 = "start"
    /\ pc2' = "gathering"
    /\ tasks2' = [n \in Names |-> Task("pending", 0, <<>>, NoResult)]
    /\ UNCHANGED <<operation2, inputs2, calls2, db_results2, inconsistencies2,
                   test_result2, first, extraction, generation,
                   lifecycle>>

\* the event loop starts the task of client n of the second run_test
TaskStart2(n) ==
    /\ pc2 = "gathering"
    /\ tasks2[n].st = "pending"
    /\ LET r == Begin(n, operation2, inputs2)
       IN  /\ tasks2' = [tasks2 EXCEPT ![n] = r.task]
           /\ calls2' = [calls2 EXCEPT ![n] = @ \o r.call]
    /\ UNCHANGED <<operation2, inputs2, pc2, db_results2, inconsistencies2,
                   test_result2, first, extraction, generation,
                   lifecycle>>

\* the call client n is awaiting for the second run_test returns ret
CallReturn2(n, ret) ==
    /\ pc2 = "gathering"
    /\ tasks2[n].st = "awaiting"
    /\ ret \in Returns(operation2, calls2[n][Len(calls2[n])].method)
    /\ LET r == Resume(n, operation2, inputs2, tasks2[n], ret)
       IN  /\ tasks2' = [tasks2 EXCEPT ![n] = r.task]
           /\ calls2' = [calls2 EXCEPT
                           ![n] = Settle(@, "returned", ret, "") \o r.call]
    /\ UNCHANGED <<operation2, inputs2, pc2, db_results2, inconsistencies2,
                   test_result2, first, extraction, generation,
                   lifecycle>>

\* the call client n is awaiting for the second run_test raises
CallRaise2(n, error) ==
    /\ pc2 = "gathering"
    /\ tasks2[n].st = "awaiting"
    /\ tasks2' = [tasks2 EXCEPT ![n] = Caught(n, error).task]
    /\ calls2' = [calls2 EXCEPT ![n] = Settle(@, "raised", PyNone, error)]
    /\ UNCHANGED <<operation2, inputs2, pc2, db_results2, inconsistencies2,
                   test_result2, first, extraction, generation,
                   lifecycle>>

AllSettled2 == \A n \in Names : tasks2[n].st = "done"

\* variant: the tasks dict is kept on the tester and shared by both runs
GatheredOfFirst ==
    [j \in 1..Len(Clients) |-> Entry(Clients[j], tasks[Clients[j]].result)]

\* the db_results dict of the second run_test (lines 73-86)
Gathered2 ==
    [j \in 1..Len(Clients) |-> Entry(Clients[j], tasks2[Clients[j]].result)]

\* the second run_test from the completion of gather to its return
Collect2 ==
    /\ pc2 = "gathering"
    /\ AllSettled2
    /\ LET results == Gathered2
           compared == _compare_results(operation2, results)
       IN  /\ db_results2' = results
           /\ IF compared.exc # ""
              THEN /\ pc2' = "raised"
                   /\ UNCHANGED <<inconsistencies2, test_result2>>
              ELSE /\ pc2' = "done"
                   /\ inconsistencies2' = compared.out
                   /\ test_result2' =
                        TestResult(TestId2, operation2, inputs2,
                           [j \in 1..Len(results) |->
                               Entry(results[j].k, results[j].v.data)],
                           compared.out,
                           [j \in 1..Len(results) |->
                               Entry(results[j].k, Elapsed)])
    /\ UNCHANGED <<operation2, inputs2, tasks2, calls2, first, extraction, generation,
                   lifecycle>>

NextTwo ==
    \/ Dispatch
    \/ \E n \in Names : TaskStart(n)
    \/ \E n \in Names : \E ret \in TwoPayloads : CallReturn(n, ret)
    \/ \E n \in Names : \E error \in TwoErrors : CallRaise(n, error)
    \/ Collect
    \/ Dispatch2
    \/ \E n \in Names : TaskStart2(n)
    \/ \E n \in Names : \E ret \in TwoPayloads : CallReturn2(n, ret)
    \/ \E n \in Names : \E error \in TwoErrors : CallRaise2(n, error)
    \/ Collect2

SpecTwo == InitTwo /\ [][NextTwo]_vars

\* what run_test records for client n when it runs alone with a single-call
\* operation, given the answers log that the calls of n got
AloneResult(n, op, inp, log) ==
    IF ~inp.has_key
    THEN DatabaseResult(n, FALSE, PyNone, "'" \o RequiredKey(op) \o "'")
    ELSE IF log[1].outcome = "raised"
         THEN DatabaseResult(n, FALSE, PyNone, log[1].err)
         ELSE DatabaseResult(n, TRUE, log[1].ret, "")
AloneResults(op, inp, logs) ==
    [j \in 1..Len(Clients) |->
        Entry(Clients[j], AloneResult(Clients[j], op, inp, logs[Clients[j]]))]
AsAlone(id, op, inp, logs, result) ==
    LET alone == AloneResults(op, inp, logs)
    IN  /\ result.test_id = id
        /\ result.operation = op
        /\ result.inputs = inp
        /\ result.results =
              [j \in 1..Len(alone) |-> Entry(alone[j].k, alone[j].v.data)]
        /\ result.inconsistencies = _compare_results(op, alone).out

\* C19: of two run_test invocations interleaved on one DifferentialTester,
\* each returns the results map and the inconsistency list it returns when
\* run alone: those determined by its own operation, its own inputs and the
\* answers to its own calls, whatever the other invocation does meanwhile.
C19_InterleavedAsAlone ==
    /\ pc = "done" =>
          /\ db_results = AloneResults(operation, inputs, calls)
          /\ inconsistencies = test_result.inconsistencies
          /\ AsAlone(TestId, operation, inputs, calls, test_result)
    /\ pc2 = "done" =>
          /\ db_results2 = AloneResults(operation2, inputs2, calls2)
          /\ inconsistencies2 = test_result2.inconsistencies
          /\ AsAlone(TestId2, operation2, inputs2, calls2, test_result2)

\* the second invocation returned, with an insert count mismatch, while the
\* first, started before, is still waiting for a client that raised for the
\* second
C19_Witness ==
    /\ pc2 = "done" /\ CountKind(KindInsert) = 0
    /\ \E j \in 1..Len(inconsistencies2) :
          inconsistencies2[j].kind = KindInsert
    /\ pc = "gathering"
    /\ \E n \in Names :
          /\ tasks[n].st = "awaiting"
          /\ ~Lookup(db_results2, n).success
    /\ \E n \in Names : tasks[n].st = "done" /\ tasks[n].result.success

\* C21: for a payload of k 'result' wrappers around a payload of a
\* supported shape carrying the identifiers q (k = 0..MaxDepth), the call
\* of the extractor returns, having taken the 'result' branch exactly k
\* times, and returns the identifiers of q, each once and none missing.
C21_WrapperOncePerLevel ==
    \A shape \in Shapes, q \in IdSeqs, k \in 0..MaxDepth :
        (pc # "extracting" /\ argument = Wrapped(k, Shaped(shape, q))) =>
            /\ pc = "extracted"
            /\ unwrapped = k
            /\ Len(extracted.out) = Len(q)
            /\ extracted.out = _extract_search_result_ids(Shaped(shape, q)).out
            /\ \A j \in 1..Len(q) : extracted.out[j] = IdText(q[j])

\* two wrappers around the 'data' format with two identifiers
C21_Witness ==
    /\ pc = "extracted"
    /\ argument = Wrapped(2, Shaped("data", <<PyStr("a7"), PyInt(1)>>))
    /\ unwrapped = 2
    /\ extracted.out = <<"a7", "1">>

(***************************************************************************)
(* The fuzz generator (src/fuzz/fuzz_generator.py).  Each random draw is a *)
(* choice; random.random() < p is a Boolean draw.  A vector is kept as its *)
(* length and the marks of what it contains: "wide" when some component    *)
(* was drawn from uniform(-10, 10), "inf", "-inf" and "nan" for the        *)
(* special values.  pc is "generating" before the call of the generator    *)
(* and "generated" after it.                                               *)
(***************************************************************************)
MaxVectors == 2

\* FuzzConfig.vector_dimension (line 15)
VectorDimension == 128
\* one value of random.randint(1, 256) (line 67)
WrongDimension == 64
\* one value of random.randint(256, 1000) (line 71)
LargeDimension == 1000
\* range(10000) (line 259) and num_vectors = 1000 (line 283)
VeryLargeDimension == 10000
VeryLargeBatch == 1000

\* a list of n floats whose notable components are marks
Floats(n, marks) ==
    Mk("floats", n, "", [j \in 1..Len(marks) |-> PyStr(marks[j])])
\* a list of n elements, each like elem
Repeat(n, elem) == Mk("repeat", n, "", <<elem>>)
Marked(v, mark) == \E j \in 1..Len(v.l) : v.l[j] = PyStr(mark)

\* the draws of one call of _generate_vector: lines 60, 62, 69, 75 (for some
\* component), 82 and 84
Draws ==
    [invalid : BOOLEAN, empty : BOOLEAN, large : BOOLEAN, wide : BOOLEAN,
     infs : BOOLEAN, nan : BOOLEAN]

\* variant: no early return, every injection is decided by its own draw
GenerateVectorIndependent(d) ==
    LET dimension == IF d.invalid /\ d.empty THEN 0
                     ELSE IF d.large THEN LargeDimension
                     ELSE IF d.invalid THEN WrongDimension
                     ELSE VectorDimension
    IN  Floats(dimension + (IF d.infs THEN 2 ELSE 0) + (IF d.nan THEN 1 ELSE 0),
               (IF d.wide /\ dimension > 0 THEN <<"wide">> ELSE <<>>)
                   \o (IF d.infs THEN <<"inf", "-inf">> ELSE <<>>)
                   \o (IF d.nan THEN <<"nan">> ELSE <<>>))

\* the bounds of random.randint(1, 256) (line 67) and of
\* random.randint(256, 1000) (line 71)
MaxWrongDimension == 256
MinLargeDimension == 256

\* values of random.randint(1, 256) and of random.randint(256, 1000)
WrongSizes == {1, WrongDimension, MaxWrongDimension}
LargeSizes == {MinLargeDimension, LargeDimension}

\* variant: Infinity, -Infinity and NaN take the place of the last
\* components instead of being appended
GenerateVectorReplacing(d, dimension, wrong, large) ==
    IF d.invalid
    THEN IF d.empty THEN Floats(0, <<>>) ELSE Floats(wrong, <<>>)
    ELSE Floats(IF d.large THEN large ELSE dimension,
                (IF d.wide THEN <<"wide">> ELSE <<>>)
                    \o (IF d.infs THEN <<"inf", "-inf">> ELSE <<>>)
                    \o (IF d.nan THEN <<"nan">> ELSE <<>>))

\* lines 55-88, for the draws d, the dimension asked for, and the values
\* wrong and large of the two calls of random.randint
GenerateVectorSized(d, dimension, wrong, large) ==
    IF d.invalid
    THEN IF d.empty THEN Floats(0, <<>>) ELSE Floats(wrong, <<>>)
    ELSE LET n == IF d.large THEN large ELSE dimension
         IN  Floats(n + (IF d.infs THEN 2 ELSE 0)
                      + (IF d.nan THEN 1 ELSE 0),
                    (IF d.wide THEN <<"wide">> ELSE <<>>)
                        \o (IF d.infs THEN <<"inf", "-inf">> ELSE <<>>)
                        \o (IF d.nan THEN <<"nan">> ELSE <<>>))

\* lines 55-88 with one value for each call of random.randint
_generate_vector(d) ==
    GenerateVectorSized(d, VectorDimension, WrongDimension, LargeDimension)

\* the vectors _generate_vector may return
Vectors == {_generate_vector(d) : d \in Draws}
VectorLists(n) == UNION {[1..m -> Vectors] : m \in 1..n}

\* lines 227-235: one invalid and one valid name
CollectionNames == {"name with spaces", "test_collection_1"}
\* f"id_{random.randint(0, 1000000)}"
SomeId == PyStr("id_42")
\* the metadata entry of a vector: None or what _generate_metadata returns
Metadata == {PyNone, PyDict(<<>>), PyDict(<<KV("field_0", PyInt(7))>>)}

\* lines 128-147; every vector of one call gets the same metadata here
_generate_insert_params ==
    {PyDict(<<KV("vectors", PyList(vectors)),
              KV("ids", PyList([j \in 1..Len(vectors) |-> SomeId])),
              KV("metadata", PyList([j \in 1..Len(vectors) |-> metadata])),
              KV("collection_name", PyStr(name))>>) :
        vectors \in VectorLists(MaxVectors), metadata \in Metadata,
        name \in CollectionNames}

\* lines 149-160; limit is one value of random.randint(1, 100)
_generate_search_params ==
    {PyDict(<<KV("query_vector", query_vector), KV("limit", PyInt(10)),
              KV("metric_type", PyStr(metric_type)),
              KV("collection_name", PyStr(name))>>) :
        query_vector \in Vectors, metric_type \in {"L2", "cosine", "ip"},
        name \in CollectionNames}

\* variant: the identifiers are put under 'id'
GenerateDeleteParamsUnderId ==
    {PyDict(<<KV("id", PyList(<<SomeId>>)),
              KV("collection_name", PyStr(name))>>) : name \in CollectionNames}

\* lines 162-174: with or without the three invalid identifiers
_generate_delete_params ==
    {PyDict(<<KV("ids", PyList(<<SomeId>> \o invalid)),
              KV("collection_name", PyStr(name))>>) :
        invalid \in {<<>>, <<PyStr("invalid_id_1"), PyStr("nonexistent_id"),
                            PyStr("")>>},
        name \in CollectionNames}

\* lines 176-178
_generate_batch_insert_params == _generate_insert_params

\* lines 180-192: num_queries = 1..MaxQueries of random.randint(1, 10)
_generate_batch_search_params ==
    {PyDict(<<KV("query_vectors", PyList(query_vectors)),
              KV("limit", PyInt(10)), KV("metric_type", PyStr("L2")),
              KV("collection_name", PyStr(name))>>) :
        query_vectors \in VectorLists(MaxQueries), name \in CollectionNames}

\* the op_params of lines 199-217
OpParams ==
    {PyDict(<<KV("type", PyStr("insert")), KV("vectors", PyList(<<v>>)),
              KV("id", SomeId)>>) : v \in Vectors}
    \cup {PyDict(<<KV("type", PyStr("search")), KV("query_vector", v),
                   KV("limit", PyInt(5))>>) : v \in Vectors}
    \cup {PyDict(<<KV("type", PyStr("delete")),
                   KV("ids", PyList(<<SomeId>>))>>)}

\* lines 194-225: num_operations = 2..MaxOps of random.randint(2, 10)
_generate_mixed_operations_params ==
    {PyDict(<<KV("operations", PyList(operations)),
              KV("collection_name", PyStr(name))>>) :
        operations \in UNION {[1..m -> OpParams] : m \in 2..MaxOps},
        name \in CollectionNames}

\* self.operations (lines 27-34)
GeneratorOperations ==
    <<"insert", "search", "delete", "batch_insert", "batch_search",
      "mixed_operations">>

\* generate_test once random.choice returned `choice` (lines 38-53): the
\* pairs of operation tag and input dict it may return
generate_test(choice) ==
    CASE choice = "insert" ->
            {<<"insert", p>> : p \in _generate_insert_params}
      [] choice = "search" ->
            {<<"search", p>> : p \in _generate_search_params}
      [] choice = "delete" ->
            {<<"delete", p>> : p \in _generate_delete_params}
      [] choice = "batch_insert" ->
            {<<"batch_insert", p>> : p \in _generate_batch_insert_params}
      [] choice = "batch_search" ->
            {<<"batch_search", p>> : p \in _generate_batch_search_params}
      [] choice = "mixed_operations" ->
            {<<"mixed_operations", p>> : p \in _generate_mixed_operations_params}
      [] OTHER -> {<<"unknown", PyDict(<<>>)>>}

\* the fields _safe_execute indexes in a sub-operation (lines 159-170)
RequiredFields(type) ==
    CASE type = "insert" -> {"vectors", "id"}
      [] type = "search" -> {"query_vector", "limit"}
      [] type = "delete" -> {"ids"}
      [] OTHER -> {}

\* what the mixed loop finds in the sub-operation o: its type and whether
\* every field read for that type is there; reading a missing 'type' raises
\* the same KeyError as reading a missing field
AsSubOp(o) ==
    IF ~HasKey(o, "type") THEN SubOp("insert", FALSE)
    ELSE SubOp(GetItem(o, "type").s,
               \A f \in RequiredFields(GetItem(o, "type").s) : HasKey(o, f))

\* what _safe_execute finds in the input dict p for operation op
AsInputs(op, p) ==
    MkInputs(HasKey(p, RequiredKey(op)),
             IF op = "batch_search" /\ HasKey(p, "query_vectors")
             THEN Len(GetItem(p, "query_vectors").l) ELSE 0,
             IF op = "mixed_operations" /\ HasKey(p, "operations")
             THEN LET ops == GetItem(p, "operations").l
                  IN  [j \in 1..Len(ops) |-> AsSubOp(ops[j])]
             ELSE <<>>)

InitGen ==
    /\ pc = "generating"
    /\ operation = ""
    /\ inputs = MkInputs(FALSE, 0, <<>>)
    /\ tasks = [n \in Names |-> Task("none", 0, <<>>, NoResult)]
    /\ calls = [n \in Names |-> <<>>]
    /\ db_results = <<>>
    /\ inconsistencies = <<>>
    /\ test_result = NoTestResult
    /\ NoSecond
    /\ NoExtraction
    /\ NoGeneration
    /\ NoLifecycle

\* operation, inputs = self.fuzz_generator.generate_test() (main.py line 69)
GenerateTest ==
    /\ pc = "generating"
    /\ \E j \in 1..Len(GeneratorOperations) :
          \E test \in generate_test(GeneratorOperations[j]) :
              /\ operation' = test[1]
              /\ params' = test[2]
              /\ inputs' = AsInputs(test[1], test[2])
    /\ scenario' = ""
    /\ pc' = "generated"
    /\ UNCHANGED <<tasks, calls, db_results, inconsistencies, test_result,
                   second, extraction, lifecycle>>


\* the choices of random.choice in generate_edge_case_test (lines 239-248)
EdgeCases ==
    <<"empty_vector", "very_large_vector", "nan_values", "inf_values",
      "very_large_batch", "empty_metadata", "malformed_id",
      "nonexistent_collection">>

EdgeInsert(vectors, id, name) ==
    PyDict(<<KV("vectors", vectors), KV("ids", PyList(<<PyStr(id)>>)),
             KV("metadata", PyList(<<PyDict(<<>>)>>)),
             KV("collection_name", PyStr(name))>>)
EdgeSearch(query_vector, name) ==
    PyDict(<<KV("query_vector", query_vector), KV("limit", PyInt(10)),
             KV("metric_type", PyStr("L2")),
             KV("collection_name", PyStr(name))>>)

\* variant: the 1000-vector batch is returned under the tag 'insert'
EdgeBatchAsInsert(name) ==
    <<"insert",
      PyDict(<<KV("vectors",
                  Repeat(VeryLargeBatch, Floats(VectorDimension, <<>>))),
               KV("ids", Repeat(VeryLargeBatch, PyStr("id_i"))),
               KV("metadata", Repeat(VeryLargeBatch, PyDict(<<>>))),
               KV("collection_name", PyStr(name))>>)>>

\* the 'very_large_batch' scenario (lines 282-292)
EdgeBatch(name) ==
    <<"batch_insert",
      PyDict(<<KV("vectors",
                  Repeat(VeryLargeBatch, Floats(VectorDimension, <<>>))),
               KV("ids", Repeat(VeryLargeBatch, PyStr("id_i"))),
               KV("metadata", Repeat(VeryLargeBatch, PyDict(<<>>))),
               KV("collection_name", PyStr(name))>>)>>

\* generate_edge_case_test once random.choice returned edge_case (lines
\* 250-313): the pairs of operation tag and input dict it may return
generate_edge_case_test(edge_case) ==
    CASE edge_case = "empty_vector" ->
            {<<"insert",
               EdgeInsert(PyList(<<Floats(0, <<>>)>>), "empty_id", name)>> :
                name \in CollectionNames}
      [] edge_case = "very_large_vector" ->
            {<<"insert",
               EdgeInsert(PyList(<<Floats(VeryLargeDimension, <<>>)>>),
                          "large_vector_id", name)>> :
                name \in CollectionNames}
      [] edge_case = "nan_values" ->
            {<<"search",
               EdgeSearch(Floats(VectorDimension, <<"nan">>), name)>> :
                name \in CollectionNames}
      [] edge_case = "inf_values" ->
            {<<"search",
               EdgeSearch(Floats(VectorDimension, <<"inf">>), name)>> :
                name \in CollectionNames}
      [] edge_case = "very_large_batch" ->
            {EdgeBatch(name) : name \in CollectionNames}
      [] edge_case = "empty_metadata" ->
            {<<"insert",
               EdgeInsert(PyList(<<v>>), "empty_metadata_id", name)>> :
                v \in Vectors, name \in CollectionNames}
      [] edge_case = "malformed_id" ->
            {<<"delete",
               PyDict(<<KV("ids", PyList(<<PyStr(""), PyStr("invalid@id"),
                                           PyStr("id with spaces")>>)),
                        KV("collection_name", PyStr(name))>>)>> :
                name \in CollectionNames}
      [] edge_case = "nonexistent_collection" ->
            {<<"search", EdgeSearch(v, "nonexistent_collection")>> :
                v \in Vectors}
      [] OTHER -> {<<"unknown", PyDict(<<>>)>>}

\* operation, inputs = generate_edge_case_test(); scenario keeps the choice
GenerateEdgeCase ==
    /\ pc = "generating"
    /\ \E j \in 1..Len(EdgeCases) :
          /\ scenario' = EdgeCases[j]
          /\ \E test \in generate_edge_case_test(EdgeCases[j]) :
                /\ operation' = test[1]
                /\ params' = test[2]
                /\ inputs' = AsInputs(test[1], test[2])
    /\ pc' = "generated"
    /\ UNCHANGED <<tasks, calls, db_results, inconsistencies, test_result,
                   second, extraction, lifecycle>>

NextGen == GenerateTest \/ GenerateEdgeCase

SpecGen == InitGen /\ [][NextGen]_vars

\* the DatabaseResult _safe_execute returns on client n when every client
\* call it awaits returns None
RECURSIVE Driven(_, _, _, _)
Driven(n, op, inp, step) ==
    IF step.task.st = "done" THEN step.task.result
    ELSE Driven(n, op, inp, Resume(n, op, inp, step.task, PyNone))
WhenCallsReturn(n, op, inp) == Driven(n, op, inp, Begin(n, op, inp))

Generated == pc = "generated" /\ scenario = ""

\* C22: generate_test returns one of the six operation tags, never
\* 'unknown', with an input dict that has the key _safe_execute indexes for
\* that tag; every sub-operation of mixed_operations has its 'type' and the
\* fields read for that type; so on no client the result fails for a missing
\* key: when the client calls return, the result is a success.
C22_GeneratedInputsComplete ==
    Generated =>
        /\ operation \in Operations
        /\ operation # UnknownOperation
        /\ HasKey(params, RequiredKey(operation))
        /\ inputs.has_key
        /\ operation = "mixed_operations" =>
              \A j \in 1..Len(GetItem(params, "operations").l) :
                  LET o == GetItem(params, "operations").l[j]
                  IN  /\ HasKey(o, "type")
                      /\ GetItem(o, "type").s \in CalledTypes
                      /\ \A f \in RequiredFields(GetItem(o, "type").s) :
                             HasKey(o, f)
                      /\ inputs.operations[j].complete
        /\ \A n \in Names :
              /\ Begin(n, operation, inputs).task.st # "done"
              /\ WhenCallsReturn(n, operation, inputs).success

C22_Witness ==
    /\ Generated
    /\ operation = "mixed_operations"
    /\ Len(inputs.operations) = 2
    /\ inputs.operations[1] = SubOp("insert", TRUE)
    /\ inputs.operations[2] = SubOp("delete", TRUE)
    /\ Begin("milvus", operation, inputs).call[1].method = "insert_vectors"


EdgeGenerated == pc = "generated" /\ scenario # ""
\* len() of a list value
Count(list) == IF list.t = "repeat" THEN list.i ELSE Len(list.l)
\* the single vector of a one-vector 'vectors' list
OnlyVector == GetItem(params, "vectors").l[1]

\* C23: generate_edge_case_test returns one of the eight scenarios, never
\* 'unknown', each with its operation tag and shape: empty_vector is an
\* insert of one zero-length vector, very_large_vector an insert of one
\* vector of 10,000 components, nan_values and inf_values a search whose
\* query vector has the configured dimension and contains NaN or Infinity,
\* very_large_batch a batch_insert of 1000 vectors, ids and metadata
\* entries, empty_metadata an insert of one vector with metadata [{}],
\* malformed_id a delete, nonexistent_collection a search on the collection
\* 'nonexistent_collection'.
C23_EdgeCaseTable ==
    EdgeGenerated =>
        /\ \E j \in 1..8 : scenario = EdgeCases[j]
        /\ Len(EdgeCases) = 8
        /\ operation # UnknownOperation
        /\ scenario = "empty_vector" =>
              /\ operation = "insert"
              /\ Count(GetItem(params, "vectors")) = 1
              /\ OnlyVector = Floats(0, <<>>)
        /\ scenario = "very_large_vector" =>
              /\ operation = "insert"
              /\ Count(GetItem(params, "vectors")) = 1
              /\ OnlyVector.t = "floats" /\ OnlyVector.i = 10000
        /\ scenario = "nan_values" =>
              /\ operation = "search"
              /\ GetItem(params, "query_vector").i = VectorDimension
              /\ Marked(GetItem(params, "query_vector"), "nan")
        /\ scenario = "inf_values" =>
              /\ operation = "search"
              /\ GetItem(params, "query_vector").i = VectorDimension
              /\ Marked(GetItem(params, "query_vector"), "inf")
        /\ scenario = "very_large_batch" =>
              /\ operation = "batch_insert"
              /\ Count(GetItem(params, "vectors")) = 1000
              /\ Count(GetItem(params, "ids")) = 1000
              /\ Count(GetItem(params, "metadata")) = 1000
        /\ scenario = "empty_metadata" =>
              /\ operation = "insert"
              /\ Count(GetItem(params, "vectors")) = 1
              /\ GetItem(params, "metadata") = PyList(<<PyDict(<<>>)>>)
        /\ scenario = "malformed_id" =>
              /\ operation = "delete"
              /\ HasKey(params, "ids")
        /\ scenario = "nonexistent_collection" =>
              /\ operation = "search"
              /\ GetItem(params, "collection_name")
                     = PyStr("nonexistent_collection")

C23_Witness ==
    /\ EdgeGenerated
    /\ scenario = "very_large_batch"
    /\ operation = "batch_insert"
    /\ Count(GetItem(params, "vectors")) = 1000
    /\ inputs.has_key


\* the injections a generated vector shows; its dimension is its length
\* without the special values appended at the end
Injections == {"empty", "wrong_dimension", "oversized", "negative_range",
               "special"}
Special(v) == Marked(v, "inf") \/ Marked(v, "nan")
BaseDimension(v) ==
    v.i - (IF Marked(v, "inf") THEN 2 ELSE 0) - (IF Marked(v, "nan") THEN 1 ELSE 0)
InjectionsOf(v) ==
    {x \in Injections :
        \/ x = "empty" /\ BaseDimension(v) = 0
        \/ x = "wrong_dimension" /\ BaseDimension(v) = WrongDimension
        \/ x = "oversized" /\ BaseDimension(v) = LargeDimension
        \/ x = "negative_range" /\ Marked(v, "wide")
        \/ x = "special" /\ Special(v)}
\* the combinations that do not contradict themselves: at most one of the
\* three dimensions, and no negative-range component in an empty vector
Combinations ==
    {combo \in SUBSET Injections :
        /\ Cardinality(combo \cap {"empty", "wrong_dimension", "oversized"}) <= 1
        /\ ~({"empty", "negative_range"} \subseteq combo)}
\* the vector in the input dict of a generated search
QueryVector == GetItem(params, "query_vector")
GeneratedSearch == Generated /\ operation = "search"

\* C24 as stated: when the generator is called, every combination of the
\* five injections can occur in the vector it generates, among them wrong
\* dimension together with NaN.
C24_EveryCombination ==
    pc = "generating" =>
        \A combo \in Combinations :
            \E d \in Draws : InjectionsOf(_generate_vector(d)) = combo

\* C24, amended: a generated vector that is empty or of a wrong dimension
\* shows no other injection, and every combination of oversized,
\* negative-range and special values occurs in some vector the draws allow.
C24_InvalidDimensionExcludesOthers ==
    /\ pc = "generating" =>
          \A combo \in SUBSET {"oversized", "negative_range", "special"} :
              \E d \in Draws : InjectionsOf(_generate_vector(d)) = combo
    /\ GeneratedSearch =>
          /\ "empty" \in InjectionsOf(QueryVector) =>
                InjectionsOf(QueryVector) = {"empty"} /\ QueryVector.i = 0
          /\ "wrong_dimension" \in InjectionsOf(QueryVector) =>
                InjectionsOf(QueryVector) = {"wrong_dimension"}

C24_Witness ==
    /\ GeneratedSearch
    /\ InjectionsOf(QueryVector) = {"oversized", "negative_range", "special"}
    /\ QueryVector.i = LargeDimension + 3

C24_WitnessWrongDimension ==
    /\ GeneratedSearch
    /\ InjectionsOf(QueryVector) = {"wrong_dimension"}


(***************************************************************************)
(* The clients' life cycle (src/fuzz/db_clients.py) and the driver around  *)
(* the tests (src/fuzz/main.py).  What a backend answers is the            *)
(* environment's choice, drawn when the request is made.  An adapter       *)
(* method is an operator from the adapter's state and the answers to its   *)
(* state afterwards; the field named after the method tells whether the    *)
(* call returned or raised.                                                *)
(***************************************************************************)
MaxSetups == 2

\* what connect() finds: "ok" when some health endpoint answers 200,
\* "port_only" when none does but the configured host and port accept a
\* TCP connection, "down" when the configured port is closed as well
Healths == {"ok", "port_only", "down"}

\* does _check_health of client n return (TRUE) or raise (FALSE); local
\* tells whether localhost:19530 accepts a TCP connection, which is what
\* the Milvus client probes, whatever host and port are configured
_check_health(n, health, local) ==
    CASE n = "milvus" -> health = "ok" \/ local      \* lines 76-119
      [] n = "chroma" -> TRUE                          \* lines 375-428
      [] n = "qdrant" -> TRUE                          \* lines 861-871
      [] OTHER -> TRUE                                 \* lines 1248-1275

\* DatabaseClient.connect (lines 26-29)
connect(n, st, health, local) ==
    [st EXCEPT !.session = "open", !.health = health, !.local = local,
               !.connect = IF _check_health(n, health, local)
                           THEN "returned" ELSE "raised"]

\* the answers to one request: for the creation of a collection "created"
\* is a success, "exists" the backend's refusal because the collection is
\* there already (409, 422, or 200 with a non-zero code), "not_found" a 404
\* and "client_error" an aiohttp.ClientError
Answers == {"created", "exists", "not_found", "client_error"}

\* the answers to the request that removes a collection: the response is
\* not looked at, so only an aiohttp.ClientError makes a difference
DropAnswers == {"dropped", "client_error"}

\* the four paths MilvusClient.setup_test_collection posts to, in order:
\* two of the v2 API (line 138), two of the legacy API (line 183)
MilvusCreatePaths == <<"/v2", "/v2", "/v1", "/v1">>

\* setup_test_collection of client n: drop is the answer to the request that
\* removes the collection first, answers[j] the answer to the j-th creation
\* request if it is made.  No call raises: every body is inside
\* try / except Exception.  Only the Milvus client changes its state (lines
\* 121-216); the others (lines 430-507, 873-957, 1277-1345) assign nothing.
setup_test_collection(n, st, drop, answers) ==
    IF n # "milvus" THEN st
    ELSE IF st.session = "none" \/ drop = "client_error"
        THEN [st EXCEPT !.mock_mode = TRUE]
    ELSE IF \E j \in 1..Len(MilvusCreatePaths) : answers[j] = "created"
        THEN LET j == CHOOSE k \in 1..Len(MilvusCreatePaths) :
                          /\ answers[k] = "created"
                          /\ \A m \in 1..(k - 1) : answers[m] # "created"
             IN  [st EXCEPT !.api_version = MilvusCreatePaths[j]]
    ELSE [st EXCEPT !.mock_mode = TRUE]

\* cleanup of client n; drop is the answer to the request that removes the
\* collection: MilvusClient skips it in mock mode (lines 227-232), no
\* client guards it (lines 218-225, 528-538, 970-980, 1359-1369)
cleanup(n, st, drop) ==
    [st EXCEPT !.cleanup =
        IF n = "milvus" /\ st.mock_mode THEN "returned"
        ELSE IF st.session = "none" \/ drop = "client_error" THEN "raised"
        ELSE "returned"]

\* DatabaseClient.disconnect (lines 31-34)
disconnect(st) ==
    [st EXCEPT !.session = IF st.session = "none" THEN "none" ELSE "closed",
               !.disconnect = "returned"]

\* the bookkeeping of one more call of setup_test_collection
Counted(before, after) ==
    [after EXCEPT !.setups = before.setups + 1,
                  !.first = IF before.setups = 0
                            THEN <<after.api_version, after.mock_mode>>
                            ELSE before.first]

Idle ==
    /\ operation = ""
    /\ inputs = MkInputs(FALSE, 0, <<>>)
    /\ tasks = [n \in Names |-> Task("none", 0, <<>>, NoResult)]
    /\ calls = [n \in Names |-> <<>>]
    /\ db_results = <<>>
    /\ inconsistencies = <<>>
    /\ test_result = NoTestResult
    /\ NoSecond
    /\ NoExtraction
    /\ NoGeneration

\* main() (main.py lines 99-110) about to call fuzzer.setup(): driver.pc is
\* the await the driver is at, driver.at the position in self.clients
InitDriver ==
    /\ pc = "main"
    /\ Idle
    /\ adapters = [n \in Names |-> FreshAdapter]
    /\ driver = [pc |-> "connect", at |-> 1]

LifecycleOnly ==
    UNCHANGED <<operation, inputs, pc, tasks, calls, db_results,
                inconsistencies, test_result, second, extraction, generation>>

\* await client.connect() in setup (line 48); an exception leaves setup and
\* main
SetupConnect ==
    /\ driver.pc = "connect"
    /\ LET n == Clients[driver.at]
       IN  \E health \in Healths, local \in BOOLEAN :
              /\ n # "milvus" \/ health = "ok" => ~local
              /\ adapters' = [adapters EXCEPT
                                 ![n] = connect(n, @, health, local)]
              /\ driver' = IF adapters'[n].connect = "raised"
                           THEN [driver EXCEPT !.pc = "setup_raised"]
                           ELSE [driver EXCEPT !.pc = "setup_test_collection"]
    /\ LifecycleOnly

\* await client.setup_test_collection() in setup (line 49), then the next
\* client or, after the last, run_fuzz_test
SetupCollection ==
    /\ driver.pc = "setup_test_collection"
    /\ LET n == Clients[driver.at]
       IN  \E drop \in DropAnswers,
              answers \in [1..Len(MilvusCreatePaths) -> Answers] :
              adapters' = [adapters EXCEPT
                  ![n] = Counted(@, setup_test_collection(n, @, drop, answers))]
    /\ driver' = IF driver.at < Len(Clients)
                 THEN [pc |-> "connect", at |-> driver.at + 1]
                 ELSE [pc |-> "run_fuzz_test", at |-> 0]
    /\ LifecycleOnly

\* results = await fuzzer.run_fuzz_test(num_tests=50) (line 104); the tests
\* are the subject of Spec and change nothing of the clients' state
RunFuzzTest ==
    /\ driver.pc = "run_fuzz_test"
    /\ driver' = [pc |-> "cleanup", at |-> 1]
    /\ UNCHANGED adapters
    /\ LifecycleOnly

\* await client.cleanup() in the first loop of cleanup (lines 88-91); an
\* exception leaves cleanup and main
CleanupClient ==
    /\ driver.pc = "cleanup"
    /\ LET n == Clients[driver.at]
       IN  \E drop \in DropAnswers :
              /\ adapters' = [adapters EXCEPT ![n] = cleanup(n, @, drop)]
              /\ driver' = IF adapters'[n].cleanup = "raised"
                           THEN [driver EXCEPT !.pc = "cleanup_raised"]
                           ELSE IF driver.at < Len(Clients)
                           THEN [driver EXCEPT !.at = @ + 1]
                           ELSE [pc |-> "disconnect", at |-> 1]
    /\ LifecycleOnly

\* await client.disconnect() in the second loop of cleanup (lines 94-97)
DisconnectClient ==
    /\ driver.pc = "disconnect"
    /\ adapters' = [adapters EXCEPT ![Clients[driver.at]] = disconnect(@)]
    /\ driver' = IF driver.at < Len(Clients)
                 THEN [driver EXCEPT !.at = @ + 1]
                 ELSE [pc |-> "finished", at |-> 0]
    /\ LifecycleOnly

NextDriver ==
    \/ SetupConnect
    \/ SetupCollection
    \/ RunFuzzTest
    \/ CleanupClient
    \/ DisconnectClient

SpecDriver == InitDriver /\ [][NextDriver]_vars


\* a harness for the clients' methods: one client, chosen at the start, has
\* its methods called in any order a caller may choose, setup_test_collection
\* at most MaxSetups times
InitAdapter ==
    /\ pc = "api"
    /\ Idle
    /\ adapters = [n \in Names |-> FreshAdapter]
    /\ \E j \in 1..Len(Clients) : driver = [pc |-> "api", at |-> j]

CallConnect ==
    /\ driver.pc = "api"
    /\ adapters[Clients[driver.at]].session = "none"
    /\ LET n == Clients[driver.at]
       IN  \E health \in Healths, local \in BOOLEAN :
              /\ n # "milvus" \/ health = "ok" => ~local
              /\ adapters' = [adapters EXCEPT
                                 ![n] = connect(n, @, health, local)]
    /\ UNCHANGED driver
    /\ LifecycleOnly

CallSetup ==
    /\ driver.pc = "api"
    /\ adapters[Clients[driver.at]].session = "open"
    /\ adapters[Clients[driver.at]].setups < MaxSetups
    /\ LET n == Clients[driver.at]
       IN  \E drop \in DropAnswers,
              answers \in [1..Len(MilvusCreatePaths) -> Answers] :
              adapters' = [adapters EXCEPT
                  ![n] = Counted(@, setup_test_collection(n, @, drop, answers))]
    /\ UNCHANGED driver
    /\ LifecycleOnly

CallCleanup ==
    /\ driver.pc = "api"
    /\ adapters[Clients[driver.at]].session = "open"
    /\ LET n == Clients[driver.at]
       IN  \E drop \in DropAnswers :
              adapters' = [adapters EXCEPT ![n] = cleanup(n, @, drop)]
    /\ UNCHANGED driver
    /\ LifecycleOnly

CallDisconnect ==
    /\ driver.pc = "api"
    /\ adapters[Clients[driver.at]].session = "open"
    /\ adapters' = [adapters EXCEPT ![Clients[driver.at]] = disconnect(@)]
    /\ UNCHANGED driver
    /\ LifecycleOnly

NextAdapter == CallConnect \/ CallSetup \/ CallCleanup \/ CallDisconnect

SpecAdapter == InitAdapter /\ [][NextAdapter]_vars

\* C25: connect() of every client raises when the backend is unreachable
\* (no health endpoint answers and the configured port is closed) and
\* returns normally only when the backend is reachable.
C25_ConnectFailsIffUnreachable ==
    \A n \in Names :
        /\ adapters[n].health = "down" => adapters[n].connect = "raised"
        /\ adapters[n].connect = "returned" => adapters[n].health # "down"

\* C26: cleanup() and disconnect() of no client raise, the driver's cleanup
\* is never left by an exception, and when it is over every client has been
\* cleaned up and disconnected.
C26_CleanupNeverPropagates ==
    /\ \A n \in Names : /\ adapters[n].cleanup # "raised"
                        /\ adapters[n].disconnect # "raised"
    /\ driver.pc # "cleanup_raised"
    /\ driver.pc = "finished" =>
          \A n \in Names : /\ adapters[n].cleanup = "returned"
                           /\ adapters[n].disconnect = "returned"
                           /\ adapters[n].session = "closed"

\* C27: after a second call of setup_test_collection in a row the client is
\* in the state the first call left it in: same api version, same mock-mode
\* flag.
C27_SetupTwiceAsOnce ==
    \A n \in Names :
        adapters[n].setups >= 2 =>
            <<adapters[n].api_version, adapters[n].mock_mode>>
                = adapters[n].first

\* C28: no connect or setup failure of a client ends the run: the driver's
\* setup is never left by an exception, and when the tests start every
\* client has been connected and set up.
C28_SetupFailureNotFatal ==
    /\ driver.pc # "setup_raised"
    /\ driver.pc = "run_fuzz_test" =>
          \A n \in Names : /\ adapters[n].session = "open"
                           /\ adapters[n].setups = 1


(***************************************************************************)
(* Attribution and order of the calls (Spec).                              *)
(***************************************************************************)
\* C29: whatever the order in which the clients' calls complete, the entry
\* under name n in db_results and in the TestResult is the outcome of the
\* task started on client n: the DatabaseResult names n and is the one that
\* task returned, the payload of a successful client is made of the values
\* its own calls returned, and results[n] is None for every client that
\* failed.
C29_AttributedToOwnClient ==
    /\ \A n \in Names :
          tasks[n].st = "done" => tasks[n].result.database = n
    /\ Returned =>
          \A j \in 1..Len(Clients) :
              LET n == Clients[j]
              IN  /\ db_results[j].k = n
                  /\ db_results[j].v.database = n
                  /\ db_results[j].v = tasks[n].result
                  /\ test_result.results[j].k = n
                  /\ test_result.results[j].v = tasks[n].result.data
                  /\ ~tasks[n].result.success =>
                        test_result.results[j].v = PyNone
                  /\ HasRaised(n) => ~tasks[n].result.success
                  /\ (tasks[n].result.success /\ InputComplete) =>
                        PayloadsOf(test_result.results[j].v) = OwnReturns(n)

C29_Witness ==
    /\ Returned
    /\ operation = "insert"
    /\ HasRaised(Clients[1])
    /\ Lookup(test_result.results, Clients[1]) = PyNone
    /\ Lookup(test_result.results, Clients[2])
           = PyDict(<<KV("insert_count", PyInt(5))>>)
    /\ Lookup(test_result.results, Clients[3])
           = PyDict(<<KV("insert_count", PyInt(4))>>)
    /\ calls[Clients[3]][1].ret = PyDict(<<KV("insert_count", PyInt(4))>>)

\* the methods _safe_execute calls on one client if no call raises, in the
\* order of the input
ExpectedCalls(op, inp) ==
    IF op = "batch_search"
    THEN [j \in 1..inp.query_vectors |-> "search_vectors"]
    ELSE IF op = "mixed_operations"
    THEN LET called == SelectSeq(inp.operations,
                                 LAMBDA o : o.type \in CalledTypes)
         IN  [j \in 1..Len(called) |-> called[j].type \o "_vectors"]
    ELSE <<>>
Looping == operation \in {"batch_search", "mixed_operations"} /\ inputs.has_key

\* C30: in batch_search and mixed_operations the sub-calls on one client are
\* issued in input order, each after the previous one returned; once a
\* sub-call has raised no further one is issued on that client and its
\* result is failed with payload None; a client none of whose sub-calls
\* raised makes all its sub-calls and succeeds, whatever happened to the
\* others.
C30_SubCallsInOrder ==
    Looping =>
        \A n \in Names :
            /\ Len(calls[n]) <= Len(ExpectedCalls(operation, inputs))
            /\ \A j \in 1..Len(calls[n]) :
                  /\ calls[n][j].method = ExpectedCalls(operation, inputs)[j]
                  /\ j < Len(calls[n]) => calls[n][j].outcome = "returned"
            /\ HasRaised(n) =>
                  /\ tasks[n].st = "done"
                  /\ ~tasks[n].result.success
                  /\ tasks[n].result.data = PyNone
            /\ (tasks[n].st = "done" /\ ~HasRaised(n) /\ InputComplete) =>
                  /\ Len(calls[n]) = Len(ExpectedCalls(operation, inputs))
                  /\ tasks[n].result.success
                  /\ Len(tasks[n].result.data.l) = Len(calls[n])

C30_Witness ==
    /\ Returned
    /\ operation = "mixed_operations"
    /\ Len(ExpectedCalls(operation, inputs)) = 2
    /\ Len(calls[Clients[1]]) = 2
    /\ calls[Clients[1]][1].outcome = "returned"
    /\ calls[Clients[1]][2].outcome = "raised"
    /\ Lookup(test_result.results, Clients[1]) = PyNone
    /\ Len(calls[Clients[2]]) = 2
    /\ ~HasRaised(Clients[2])
    /\ Len(Lookup(test_result.results, Clients[2]).l) = 2


Rejected == operation \notin Operations \/ ~inputs.has_key

\* C32: for an operation tag outside the vocabulary, or an input without the
\* top-level key its tag requires, no client method is ever called, every
\* client's result is failed with payload None, run_test returns, and the
\* list of inconsistencies is empty.
C32_RejectedWithoutCalls ==
    Rejected =>
        /\ \A n \in Names : calls[n] = <<>>
        /\ \A n \in Names :
              tasks[n].st = "done" =>
                  /\ ~tasks[n].result.success
                  /\ tasks[n].result.data = PyNone
                  /\ tasks[n].result.error =
                        (IF operation \notin Operations
                         THEN "Unknown operation: " \o operation
                         ELSE "'" \o RequiredKey(operation) \o "'")
        /\ pc # "raised"
        /\ Returned =>
              /\ Len(db_results) = Len(Clients)
              /\ \A j \in 1..Len(db_results) : ~db_results[j].v.success
              /\ \A j \in 1..Len(Clients) :
                    test_result.results[j] = Entry(Clients[j], PyNone)
              /\ inconsistencies = <<>>
              /\ test_result.inconsistencies = <<>>

C32_Witness ==
    /\ Returned
    /\ operation = "batch_search"
    /\ ~inputs.has_key
    /\ \A n \in Names : calls[n] = <<>> /\ ~tasks[n].result.success
    /\ test_result.inconsistencies = <<>>

C32_WitnessUnknown ==
    /\ Returned
    /\ operation = UnknownOperation
    /\ \A n \in Names : calls[n] = <<>> /\ ~tasks[n].result.success


PairKinds == {KindSearch, KindBatch}
PairsAt(query_idx) ==
    {j \in 1..Len(inconsistencies) :
        /\ inconsistencies[j].kind \in PairKinds
        /\ inconsistencies[j].idx = query_idx}

C33_WitnessFailedFirst ==
    /\ Returned /\ operation = "search"
    /\ Len(db_results) = 3
    /\ ~db_results[1].v.success
    /\ Len(Successful) = 2
    /\ PairsAt(0) # {}
    /\ \A j \in PairsAt(0) : inconsistencies[j].names = <<db_results[2].k>>

\* the test of the elif of one key (lines 396, 401, 404, 407, 417)
Matches(data, key) ==
    /\ HasKey(data, key)
    /\ key \in {"data", "ids", "points"} => IsList(GetItem(data, key))

\* the position in KeyOrder of the first key whose test holds, 0 if none
FirstMatch(data) ==
    IF \E i \in 1..5 : Matches(data, KeyOrder[i])
    THEN CHOOSE i \in 1..5 :
            /\ Matches(data, KeyOrder[i])
            /\ \A h \in 1..(i - 1) : ~Matches(data, KeyOrder[h])
    ELSE 0

\* the payload that holds one key of data and nothing else
OnlyKey(data, key) == PyDict(<<KV(key, GetItem(data, key))>>)

\* C34: for a dict payload the extractor consults the keys data (a list),
\* ids (a list), result, Get, points (a list) in this order and applies the
\* first that matches only: what it yields is what it yields for the payload
\* reduced to that key, whatever the other keys hold and even when the
\* first matching key gives no identifier; {'data': [], 'ids': ['a7']}
\* gives the empty list.
C34_FirstMatchingKeyOnly ==
    (pc # "extracting" /\ IsDict(argument)) =>
        /\ FirstMatch(argument) = 0 => extracted = Ok(<<>>)
        /\ FirstMatch(argument) # 0 =>
              extracted = _extract_search_result_ids(
                              OnlyKey(argument, KeyOrder[FirstMatch(argument)]))
        /\ \A q \in {<<>>, <<PyInt(1)>>} :
              argument = PyDict(<<KV("ids", PyList(q)),
                                  KV("data", IdDicts(<<>>))>>) =>
                  extracted = Ok(<<>>)
        /\ (HasKey(argument, "data") /\ GetItem(argument, "data") = IdDicts(<<PyStr("a7")>>))
              => extracted = Ok(<<"a7">>)

\* 'data' holds the empty list and 'ids' one identifier, which is not
\* extracted
C34_Witness ==
    /\ pc = "extracted"
    /\ HasKey(argument, "data") /\ GetItem(argument, "data") = PyList(<<>>)
    /\ HasKey(argument, "ids") /\ GetItem(argument, "ids") = PyList(<<PyInt(1)>>)
    /\ extracted = Ok(<<>>)

\* 'data' holds no list, so that 'ids', the next key, is the one applied,
\* and 'points' after it is not
C34_WitnessSecondKey ==
    /\ pc = "extracted"
    /\ argument = PyDict(<<KV("points", IdDicts(<<PyStr("a7")>>)),
                           KV("ids", PyList(<<PyInt(1)>>))>>)
    /\ extracted = Ok(<<"1">>)



(***************************************************************************)
(* The clients' operations (src/fuzz/db_clients.py): insert_vectors,       *)
(* search_vectors, delete_vectors, get_collection_info and cleanup of the  *)
(* Milvus client, insert_vectors and delete_vectors of the Qdrant client,  *)
(* search_vectors and delete_vectors of the Weaviate client.  A method is  *)
(* an operator from the client's state, the arguments and the backend's    *)
(* answers to the record of the call: the requests it issued with their    *)
(* answers, whether it returned or raised, and the payload it returned.    *)
(* What the backend answers is the environment's choice.                   *)
(***************************************************************************)
\* the clients whose operations are modelled
OpsNames == <<"milvus", "qdrant", "weaviate">>

\* the values of limit the calls are made with
Limits == {3, 5, 8}

Min(a, b) == IF a <= b THEN a ELSE b

\* the most identifiers a mock search result holds (lines 296, 334, 1667)
MockResults == 5

\* f"mock_result_{i}" for i in range(min(limit, 5))
\* (lines 296, 334, 1664-1667)
MockNames(limit) ==
    [j \in 1..Min(limit, MockResults) |-> PyStr("mock_result_" \o IntToStr(j - 1))]

\* one request with the answer it got: "ok" a success status with a JSON
\* body, "ok_no_json" a success status whose body is not JSON, "not_found"
\* a 404, "refused" any other status and "exception" an exception of the
\* transport
Request(verb, url, answer) == [verb |-> verb, url |-> url, answer |-> answer]
Answered == {"ok", "ok_no_json", "not_found", "refused", "exception"}

\* the record of one call of a method; mock is the client's mock_mode flag
\* when the call started
Called(method, mock, requests, outcome, ret) ==
    [method |-> method, mock |-> mock, requests |-> requests,
     outcome |-> outcome, ret |-> ret]
NoCall == Called("", FALSE, <<>>, "", PyNone)

\* the first position of answers that holds an answer of good, 0 if none
FirstOf(answers, good) ==
    IF \E j \in 1..Len(answers) : answers[j] \in good
    THEN CHOOSE j \in 1..Len(answers) :
            /\ answers[j] \in good
            /\ \A h \in 1..(j - 1) : answers[h] \notin good
    ELSE 0

\* the requests made to urls up to position k, with their answers
Posted(verb, urls, answers, k) ==
    [j \in 1..k |-> Request(verb, urls[j], answers[j])]

\* getattr(self, 'api_version', '/v2') (lines 263, 310, 347, 359)
ApiVersion(st) == IF st.api_version = "" THEN "/v2" ELSE st.api_version

\* the JSON bodies a backend answers a successful request with
InsertBody == PyDict(<<KV("code", PyInt(0)), KV("insert_count", PyInt(1))>>)
SearchBody == PyDict(<<KV("data", IdDicts(<<PyInt(1)>>))>>)
DeleteBody == PyDict(<<KV("code", PyInt(0))>>)
InfoBody == PyDict(<<KV("code", PyInt(0)), KV("status", PyStr("loaded"))>>)
GraphQLBody ==
    PyDict(<<KV("data", PyDict(<<KV("Get", PyDict(<<KV("test_collection",
        PyList(<<PyDict(<<KV("_additional",
                            PyDict(<<KV("id", PyInt(1))>>))>>)>>))>>))>>))>>)

\* [str(i) for i in range(len(vectors))] (lines 241-242)
RangeIds(n) == PyList([j \in 1..n |-> PyStr(IntToStr(j - 1))])

\* {"status": "success", "insert_count": len(vectors), "insert_ids": ids or
\* []} (lines 239 and 289)
InsertFallback(vectors, ids) ==
    PyDict(<<KV("status", PyStr("success")),
             KV("insert_count", PyInt(vectors)),
             KV("insert_ids", IF ids = PyNone \/ ids.l = <<>>
                              THEN PyList(<<>>) ELSE ids)>>)

\* variant: when every endpoint failed the insert raises
MilvusInsertRaises(st, vectors, ids, answers) ==
    IF st.mock_mode
    THEN Called("insert_vectors", TRUE, <<>>, "returned",
                InsertFallback(vectors, ids))
    ELSE LET insert_urls == <<ApiVersion(st) \o "/vectordb/insert",
                              "/api/v1/vector/collections/insert",
                              "/v1/vector/collections/insert">>
             k == FirstOf(answers, {"ok", "ok_no_json"})
         IN  IF k = 0
             THEN Called("insert_vectors", FALSE,
                         Posted("POST", insert_urls, answers, 3), "raised",
                         PyNone)
             ELSE Called("insert_vectors", FALSE,
                         Posted("POST", insert_urls, answers, k), "returned",
                         InsertBody)

\* MilvusClient.insert_vectors (lines 234-289) with len(vectors) and ids;
\* answers[j] is the answer to the j-th endpoint if it is tried
MilvusClient_insert_vectors(st, vectors, ids, answers) ==
    IF st.mock_mode
    THEN Called("insert_vectors", TRUE, <<>>, "returned",
                InsertFallback(vectors, ids))
    ELSE LET given == IF ids = PyNone THEN RangeIds(vectors) ELSE ids
             insert_urls == <<ApiVersion(st) \o "/vectordb/insert",
                              "/api/v1/vector/collections/insert",
                              "/v1/vector/collections/insert">>
             k == FirstOf(answers, {"ok", "ok_no_json"})
         IN  IF k = 0
             THEN Called("insert_vectors", FALSE,
                         Posted("POST", insert_urls, answers, 3), "returned",
                         InsertFallback(vectors, given))
             ELSE Called("insert_vectors", FALSE,
                         Posted("POST", insert_urls, answers, k), "returned",
                         IF answers[k] = "ok" THEN InsertBody
                         ELSE PyDict(<<KV("status", PyStr("success")),
                                       KV("insert_count", PyInt(vectors))>>))

\* {"data": [{"id": f"mock_result_{i}"} for i in range(min(limit, 5))]}
\* (lines 296 and 334)
MilvusMockSearch(limit) == PyDict(<<KV("data", IdDicts(MockNames(limit)))>>)

\* MilvusClient.search_vectors (lines 291-334): a body that is not JSON
\* raises inside the try and counts as a failed endpoint
MilvusClient_search_vectors(st, limit, answers) ==
    IF st.mock_mode
    THEN Called("search_vectors", TRUE, <<>>, "returned",
                MilvusMockSearch(limit))
    ELSE LET search_urls == <<ApiVersion(st) \o "/vectordb/search",
                              "/api/v1/search", "/v1/search">>
             k == FirstOf(answers, {"ok"})
         IN  IF k = 0
             THEN Called("search_vectors", FALSE,
                         Posted("POST", search_urls, answers, 3), "returned",
                         MilvusMockSearch(limit))
             ELSE Called("search_vectors", FALSE,
                         Posted("POST", search_urls, answers, k), "returned",
                         SearchBody)

\* one request whose failure is not caught: the call returns the body when
\* the answer is "ok" and raises otherwise (lines 350-353, 362-370)
OneRequest(method, verb, url, answer, body) ==
    Called(method, FALSE, <<Request(verb, url, answer)>>,
           IF answer = "ok" THEN "returned" ELSE "raised",
           IF answer = "ok" THEN body ELSE PyNone)

\* variant: the delete posts its request in mock mode too
MilvusDeleteAlwaysPosts(st, answer) ==
    [OneRequest("delete_vectors", "POST",
                ApiVersion(st) \o "/vectordb/delete", answer, DeleteBody)
        EXCEPT !.mock = st.mock_mode]

\* MilvusClient.delete_vectors (lines 336-353)
MilvusClient_delete_vectors(st, answer) ==
    IF st.mock_mode
    THEN Called("delete_vectors", TRUE, <<>>, "returned",
                PyDict(<<KV("status", PyStr("success"))>>))
    ELSE OneRequest("delete_vectors", "POST",
                    ApiVersion(st) \o "/vectordb/delete", answer, DeleteBody)

\* MilvusClient.get_collection_info (lines 355-370)
MilvusClient_get_collection_info(st, collection_name, answer) ==
    IF st.mock_mode
    THEN Called("get_collection_info", TRUE, <<>>, "returned",
                PyDict(<<KV("collectionName", PyStr(collection_name)),
                         KV("status", PyStr("loaded")),
                         KV("fields", PyList(<<PyStr("id"),
                                               PyStr("vector")>>))>>))
    ELSE OneRequest("get_collection_info", "GET",
                    ApiVersion(st) \o "/vectordb/collections/describe",
                    answer, InfoBody)

\* MilvusClient.cleanup (lines 227-232) and _drop_collection (lines
\* 218-225): the response is not looked at
MilvusClient_cleanup(st, answer) ==
    IF st.mock_mode
    THEN Called("cleanup", TRUE, <<>>, "returned", PyNone)
    ELSE Called("cleanup", FALSE,
                <<Request("POST", "/v1/vector/collections/drop", answer)>>,
                IF answer = "exception" THEN "raised" ELSE "returned", PyNone)

\* the three bodies QdrantClient.insert_vectors tries, in order (lines
\* 1006-1013)
InsertFormats == <<"points", "batch", "insert">>

\* {"status": "skipped", "reason": "collection_not_found"} (lines 1034,
\* 1049, 1208)
Skipped ==
    PyDict(<<KV("status", PyStr("skipped")),
             KV("reason", PyStr("collection_not_found"))>>)

\* the loop over insert_formats of QdrantClient.insert_vectors from format
\* i on (lines 1015-1070); sent are the requests made so far.  A status
\* that is neither a success nor 404 leaves the loop over the methods
\* (break, lines 1031 and 1037), an exception goes on with the next method
\* (continue, line 1055); after the last format the call raises (lines
\* 1062 and 1069).
RECURSIVE QdrantInsertFrom(_, _, _)
QdrantInsertFrom(i, answers, sent) ==
    IF i > Len(InsertFormats)
    THEN Called("insert_vectors", FALSE, sent, "raised", PyNone)
    ELSE LET put == answers[i].PUT
             post == answers[i].POST
             sent_put == Append(sent, Request("PUT", InsertFormats[i], put))
             sent_post ==
                 Append(sent_put, Request("POST", InsertFormats[i], post))
         IN  IF put = "ok"
             THEN Called("insert_vectors", FALSE, sent_put, "returned",
                         InsertBody)
             ELSE IF put = "not_found"
             THEN Called("insert_vectors", FALSE, sent_put, "returned",
                         Skipped)
             ELSE IF put = "refused"
             THEN QdrantInsertFrom(i + 1, answers, sent_put)
             ELSE IF post = "ok"
             THEN Called("insert_vectors", FALSE, sent_post, "returned",
                         InsertBody)
             ELSE IF post = "not_found"
             THEN Called("insert_vectors", FALSE, sent_post, "returned",
                         Skipped)
             ELSE QdrantInsertFrom(i + 1, answers, sent_post)

\* QdrantClient.insert_vectors (lines 982-1070)
QdrantClient_insert_vectors(answers) == QdrantInsertFrom(1, answers, <<>>)

\* what the methods of one insert format may be answered
QdrantAnswers == {"ok", "not_found", "refused", "exception"}
MethodAnswers == [PUT : QdrantAnswers, POST : QdrantAnswers]

\* the requests of QdrantClient.delete_vectors in the order they are made:
\* three bodies posted to three endpoints each (lines 1147-1217), then one
\* DELETE (lines 1220-1228)
DeleteRequests ==
    [k \in 1..10 |->
        IF k = 10 THEN <<"DELETE", "/points">>
        ELSE <<"POST", <<"/points/delete", "/delete", "/points">>[((k - 1) % 3) + 1]>>]

\* QdrantClient.delete_vectors (lines 1143-1232): the first failed requests
\* were refused or raised, and the next one, if any is left, got the answer
\* decisive ("ok" or "not_found")
QdrantClient_delete_vectors(failed, decisive) ==
    LET made == Min(failed + 1, Len(DeleteRequests))
        requests ==
            [k \in 1..made |->
                Request(DeleteRequests[k][1], DeleteRequests[k][2],
                        IF k <= failed THEN "refused" ELSE decisive)]
    IN  IF failed >= Len(DeleteRequests)
            \/ (made = Len(DeleteRequests) /\ decisive # "ok")
        THEN Called("delete_vectors", FALSE, requests, "raised", PyNone)
        ELSE Called("delete_vectors", FALSE, requests, "returned",
                    IF decisive = "ok"
                    THEN PyDict(<<KV("status", PyStr("success"))>>)
                    ELSE Skipped)

\* a float, in hundredths
PyFloat(hundredths) == Mk("float", hundredths, "", <<>>)

\* the mock results of WeaviateClient.search_vectors (lines 1654-1669)
WeaviateMockSearch(collection_name, limit) ==
    PyDict(<<KV("data", PyDict(<<KV("Get", PyDict(<<KV(collection_name,
        PyList([j \in 1..Min(limit, MockResults) |->
            PyDict(<<KV("_additional",
                PyDict(<<KV("id", MockNames(limit)[j]),
                         KV("certainty", PyFloat(80 - 5 * (j - 1)))>>))>>)]))
        >>))>>))>>)

\* the requests of WeaviateClient.search_vectors: three GraphQL queries
\* (lines 1556-1590), then three REST bodies posted to three endpoints each
\* (lines 1593-1650)
SearchRequests ==
    [k \in 1..12 |->
        IF k <= 3 THEN "/v1/graphql"
        ELSE <<"/v1/objects/search", "/v1/search", "/v1/similar">>[((k - 4) % 3) + 1]]

\* WeaviateClient.search_vectors (lines 1507-1669): the first failed
\* requests did not succeed; the next one, if any is left, is answered with
\* a usable body
WeaviateClient_search_vectors(collection_name, limit, failed) ==
    LET made == Min(failed + 1, Len(SearchRequests))
        requests ==
            [k \in 1..made |->
                Request("POST", SearchRequests[k],
                        IF k <= failed THEN "refused" ELSE "ok")]
    IN  IF failed >= Len(SearchRequests)
        THEN Called("search_vectors", FALSE, requests, "returned",
                    WeaviateMockSearch(collection_name, limit))
        ELSE Called("search_vectors", FALSE, requests, "returned",
                    IF made <= 3 THEN GraphQLBody ELSE SearchBody)

\* what the three endpoints tried for one identifier come to (lines
\* 1683-1712): "success" when one answers 200, 202 or 204, "not_found" when
\* one answers 404, "failed" when none does either
Deleted == {"success", "not_found", "failed"}

\* WeaviateClient.delete_vectors (lines 1675-1750) for the identifiers ids:
\* each[j] is what the requests for ids[j] come to, batch whether a batch
\* endpoint answers with a success status; of the up to three requests
\* made for one identifier, and of those to the batch endpoints, the record
\* keeps the one that decided
WeaviateClient_delete_vectors(ids, each, batch) ==
    LET delete_results ==
            PyList([j \in 1..Len(ids) |->
                        PyDict(<<KV("id", PyStr(ids[j])),
                                 KV("status", PyStr(each[j]))>>)])
        requests ==
            [j \in 1..Len(ids) |->
                Request("DELETE", "/v1/objects/" \o ids[j],
                        IF each[j] = "success" THEN "ok"
                        ELSE IF each[j] = "not_found" THEN "not_found"
                        ELSE "refused")]
        batch_request ==
            <<Request("DELETE", "/v1/objects/batch",
                      IF batch THEN "ok" ELSE "refused")>>
    IN  IF \E j \in 1..Len(ids) : each[j] \in {"success", "not_found"}
        THEN Called("delete_vectors", FALSE, requests, "returned",
                    PyDict(<<KV("status", PyStr("partial_success")),
                             KV("results", delete_results)>>))
        ELSE IF batch
        THEN Called("delete_vectors", FALSE, requests \o batch_request,
                    "returned",
                    PyDict(<<KV("status", PyStr("batch_success")),
                             KV("results", delete_results)>>))
        ELSE Called("delete_vectors", FALSE, requests \o batch_request,
                    "raised", PyNone)

\* a harness for the operations: one operation, its arguments and the
\* clients it is called on are chosen at the start; the clients are
\* connected, the Milvus client may be set up (at most MaxSetups times),
\* each client's method may be called any number of times, and at last the
\* outcomes of the clients' latest calls are compared as run_test does
OpsOperations ==
    {"insert", "search", "delete", "get_collection_info", "cleanup"}

Groups(op) ==
    CASE op = "insert" -> {<<"milvus">>, <<"qdrant">>}
      [] op = "search" -> {<<"milvus", "weaviate">>}
      [] op = "delete" -> {<<"milvus">>, <<"qdrant", "weaviate">>}
      [] OTHER -> {<<"milvus">>}

\* the arguments of the calls: len(vectors) and ids of an insert (ids is
\* None or holds one identifier per vector, as in every test the generator
\* makes), limit of a search, ids of a delete
OpsInputs(op) ==
    CASE op = "insert" ->
            {[collection_name |-> "test_collection", vectors |-> c[1],
              ids |-> IF c[2]
                      THEN PyList([j \in 1..c[1] |->
                                      PyStr("id_" \o IntToStr(j))])
                      ELSE PyNone,
              limit |-> 0] : c \in (1..MaxVectors) \X BOOLEAN}
      [] op = "search" ->
            {[collection_name |-> "test_collection", vectors |-> 0,
              ids |-> PyNone, limit |-> limit] : limit \in Limits}
      [] op = "delete" ->
            {[collection_name |-> "test_collection", vectors |-> 0,
              ids |-> PyList([j \in 1..n |-> PyStr("id_" \o IntToStr(j))]),
              limit |-> 0] : n \in 1..MaxIds}
      [] OTHER ->
            {[collection_name |-> "test_collection", vectors |-> 0,
              ids |-> PyNone, limit |-> 0]}

\* the answers to n requests made in turn: the first k - 1 get the same
\* answer of bad, the others the same answer of good
AnswersTo(n, bad, good) ==
    {[j \in 1..n |-> IF j < c[1] THEN c[2] ELSE c[3]] :
        c \in (1..(n + 1)) \X bad \X good}

\* a connected client that no operation has been called on
Connected(n) == connect(n, FreshAdapter, "ok", FALSE) @@ ("last" :> NoCall)

InitOps ==
    /\ pc = "ops"
    /\ operation \in OpsOperations
    /\ inputs \in OpsInputs(operation)
    /\ adapters = [n \in SeqToSet(OpsNames) |-> Connected(n)]
    /\ \E group \in Groups(operation) : driver = [pc |-> "ops", at |-> group]
    /\ tasks = [n \in Names |-> Task("none", 0, <<>>, NoResult)]
    /\ calls = [n \in Names |-> <<>>]
    /\ db_results = <<>>
    /\ inconsistencies = <<>>
    /\ test_result = NoTestResult
    /\ NoSecond
    /\ NoExtraction
    /\ NoGeneration

\* the step is a call on client n of the method the operation names
Calling(n, op) ==
    /\ pc = "ops"
    /\ operation = op
    /\ n \in SeqToSet(driver.at)

OpsOnly ==
    UNCHANGED <<operation, inputs, pc, tasks, calls, db_results,
                inconsistencies, test_result, second, extraction, generation,
                driver>>

\* await client.setup_test_collection() on the Milvus client
OpsSetup ==
    /\ pc = "ops"
    /\ "milvus" \in SeqToSet(driver.at)
    /\ adapters["milvus"].setups < MaxSetups
    /\ \E drop \in DropAnswers,
          answers \in AnswersTo(Len(MilvusCreatePaths),
                               Answers \ {"created"}, {"created"}) :
          adapters' = [adapters EXCEPT !["milvus"] =
              Counted(@, setup_test_collection("milvus", @, drop, answers))]
    /\ OpsOnly

MilvusInsert ==
    /\ Calling("milvus", "insert")
    /\ \E answers \in AnswersTo(3, Answered \ {"ok", "ok_no_json"},
                               {"ok", "ok_no_json"}) :
          adapters' = [adapters EXCEPT !["milvus"].last =
              MilvusClient_insert_vectors(adapters["milvus"], inputs.vectors,
                                          inputs.ids, answers)]
    /\ OpsOnly

MilvusSearch ==
    /\ Calling("milvus", "search")
    /\ \E answers \in AnswersTo(3, Answered \ {"ok"}, {"ok"}) :
          adapters' = [adapters EXCEPT !["milvus"].last =
              MilvusClient_search_vectors(adapters["milvus"], inputs.limit,
                                          answers)]
    /\ OpsOnly

MilvusDelete ==
    /\ Calling("milvus", "delete")
    /\ \E answer \in Answered \ {"ok_no_json"} :
          adapters' = [adapters EXCEPT !["milvus"].last =
              MilvusClient_delete_vectors(adapters["milvus"], answer)]
    /\ OpsOnly

MilvusInfo ==
    /\ Calling("milvus", "get_collection_info")
    /\ \E answer \in Answered \ {"ok_no_json"} :
          adapters' = [adapters EXCEPT !["milvus"].last =
              MilvusClient_get_collection_info(adapters["milvus"],
                                               inputs.collection_name, answer)]
    /\ OpsOnly

MilvusCleanup ==
    /\ Calling("milvus", "cleanup")
    /\ \E answer \in {"ok", "exception"} :
          adapters' = [adapters EXCEPT !["milvus"].last =
              MilvusClient_cleanup(adapters["milvus"], answer)]
    /\ OpsOnly

QdrantInsert ==
    /\ Calling("qdrant", "insert")
    /\ \E answers \in [1..Len(InsertFormats) -> MethodAnswers] :
          adapters' = [adapters EXCEPT !["qdrant"].last =
              QdrantClient_insert_vectors(answers)]
    /\ OpsOnly

QdrantDelete ==
    /\ Calling("qdrant", "delete")
    /\ \E failed \in 0..Len(DeleteRequests), decisive \in {"ok", "not_found"} :
          adapters' = [adapters EXCEPT !["qdrant"].last =
              QdrantClient_delete_vectors(failed, decisive)]
    /\ OpsOnly

WeaviateSearch ==
    /\ Calling("weaviate", "search")
    /\ \E failed \in 0..Len(SearchRequests) :
          adapters' = [adapters EXCEPT !["weaviate"].last =
              WeaviateClient_search_vectors(inputs.collection_name,
                                            inputs.limit, failed)]
    /\ OpsOnly

WeaviateDelete ==
    /\ Calling("weaviate", "delete")
    /\ \E each \in [1..Len(inputs.ids.l) -> Deleted], batch \in BOOLEAN :
          adapters' = [adapters EXCEPT !["weaviate"].last =
              WeaviateClient_delete_vectors(
                  [j \in 1..Len(inputs.ids.l) |-> inputs.ids.l[j].s],
                  each, batch)]
    /\ OpsOnly

\* what _safe_execute makes of the latest call on client n (lines 174-196)
OutcomeOf(n) ==
    IF adapters[n].last.outcome = "returned"
    THEN DatabaseResult(n, TRUE, adapters[n].last.ret, "")
    ELSE DatabaseResult(n, FALSE, PyNone, "Exception")

\* once every client of the group has been called: the results dict of the
\* latest calls and _compare_results on it (run_test, lines 48-58)
CompareLast ==
    /\ pc = "ops"
    /\ operation \in Operations
    /\ \A j \in 1..Len(driver.at) : adapters[driver.at[j]].last # NoCall
    /\ db_results' = [j \in 1..Len(driver.at) |->
                         Entry(driver.at[j], OutcomeOf(driver.at[j]))]
    /\ LET compared == _compare_results(operation, db_results')
       IN  IF compared.exc # ""
           THEN /\ pc' = "compare_raised"
                /\ UNCHANGED inconsistencies
           ELSE /\ pc' = "compared"
                /\ inconsistencies' = compared.out
    /\ UNCHANGED <<operation, inputs, tasks, calls, test_result, second,
                   extraction, generation, lifecycle>>

NextOps ==
    \/ OpsSetup
    \/ MilvusInsert
    \/ MilvusSearch
    \/ MilvusDelete
    \/ MilvusInfo
    \/ MilvusCleanup
    \/ QdrantInsert
    \/ QdrantDelete
    \/ WeaviateSearch
    \/ WeaviateDelete
    \/ CompareLast

SpecOps == InitOps /\ [][NextOps]_vars


(***************************************************************************)
(* The operations' claims (SpecOps).                                       *)
(***************************************************************************)
\* the latest search of the Milvus and of the Weaviate client both came to
\* the mock results, and the outcomes have been compared
BothMockSearches ==
    /\ Compared
    /\ operation = "search"
    /\ adapters["milvus"].last.ret = MilvusMockSearch(inputs.limit)
    /\ adapters["weaviate"].last.ret =
           WeaviateMockSearch(inputs.collection_name, inputs.limit)

\* C35: when the Milvus and the Weaviate client both fall back to their
\* mock search results for the same limit, the identifiers extracted from
\* the two payloads are the same mock_result_0 .. mock_result_{min(limit,
\* 5) - 1}, so that the search comparator works on two equal, non-empty
\* sets and emits nothing.
C35_MockResultsAgree ==
    BothMockSearches =>
        LET sets == SearchSets(Successful)
            mock_ids == {"mock_result_" \o IntToStr(i) :
                            i \in 0..(Min(inputs.limit, MockResults) - 1)}
        IN  /\ Len(sets) = 2
            /\ sets[1].v = mock_ids
            /\ sets[2].v = mock_ids
            /\ _extract_search_result_ids(adapters["weaviate"].last.ret)
                  = _extract_search_result_ids(adapters["milvus"].last.ret)
            /\ inconsistencies = <<>>

\* what the code does instead: the Weaviate mock payload holds 'Get' under
\* 'data', which the extractor does not look into, so that no identifier is
\* extracted from it and the comparator, which never flags an empty set,
\* emits nothing
C35_WeaviateMockYieldsNothing ==
    BothMockSearches =>
        LET sets == SearchSets(Successful)
        IN  /\ sets[1].k = "milvus" /\ Cardinality(sets[1].v) = Min(inputs.limit, MockResults)
            /\ sets[2].k = "weaviate" /\ sets[2].v = {}
            /\ inconsistencies = <<>>

C35_Reached == BothMockSearches /\ inputs.limit = 8 /\ ~adapters["milvus"].mock_mode


\* the latest delete of the Qdrant and of the Weaviate client both
\* completed, the backend having accepted every identifier: Qdrant answered
\* a success status, Weaviate one for each identifier
BothDeleted ==
    /\ Compared
    /\ operation = "delete"
    /\ driver.at = <<"qdrant", "weaviate">>
    /\ adapters["qdrant"].last.outcome = "returned"
    /\ adapters["qdrant"].last.requests[Len(adapters["qdrant"].last.requests)].answer = "ok"
    /\ adapters["weaviate"].last.outcome = "returned"
    /\ Len(adapters["weaviate"].last.requests) = Len(inputs.ids.l)
    /\ \A j \in 1..Len(adapters["weaviate"].last.requests) :
          adapters["weaviate"].last.requests[j].answer = "ok"

\* C36: when the Qdrant and the Weaviate client both complete a delete all
\* of whose identifiers the backend accepted, the delete comparator derives
\* true from both payloads and emits no inconsistency.
C36_AcceptedDeletesAgree ==
    BothDeleted =>
        /\ DeleteStatuses(Successful) =
              Ok(<<Entry("qdrant", PyBool(TRUE)),
                   Entry("weaviate", PyBool(TRUE))>>)
        /\ inconsistencies = <<>>

\* what the code does instead: Weaviate's payload says "partial_success",
\* which is not one of the words the comparator takes for a success, and a
\* status mismatch is emitted
C36_WeaviateNeverSuccess ==
    BothDeleted =>
        /\ GetItem(adapters["weaviate"].last.ret, "status") = PyStr("partial_success")
        /\ DeleteStatuses(Successful) =
              Ok(<<Entry("qdrant", PyBool(TRUE)),
                   Entry("weaviate", PyBool(FALSE))>>)
        /\ CountKind(KindDelete) = 1

C36_Reached == BothDeleted /\ Len(inputs.ids.l) = 2


\* every endpoint the latest call of client n tried failed: it made all
\* its count requests and none was answered with a success
AllFailed(n, method, count, good) ==
    /\ adapters[n].last.method = method
    /\ ~adapters[n].last.mock
    /\ Len(adapters[n].last.requests) = count
    /\ \A j \in 1..count : adapters[n].last.requests[j].answer \notin good

\* the payload of a Milvus insert (search) all of whose endpoints failed,
\* with a status or with an exception
FallbackLooksLikeSuccess ==
    /\ AllFailed("milvus", "insert_vectors", 3, {"ok", "ok_no_json"}) =>
          LET last == adapters["milvus"].last
          IN  /\ last.outcome = "returned"
              /\ IsDict(last.ret)
              /\ GetItem(last.ret, "status") = PyStr("success")
              /\ GetItem(last.ret, "insert_count") = PyInt(inputs.vectors)
              /\ Compared => /\ Lookup(db_results, "milvus").success
                             /\ Lookup(db_results, "milvus").data = last.ret
    /\ AllFailed("milvus", "search_vectors", 3, {"ok"}) =>
          LET last == adapters["milvus"].last
          IN  /\ last.outcome = "returned"
              /\ IsDict(last.ret)
              /\ IsList(GetItem(last.ret, "data"))
              /\ _extract_search_result_ids(last.ret) =
                    Ok([j \in 1..Min(inputs.limit, MockResults) |->
                            "mock_result_" \o IntToStr(j - 1)])
              /\ Compared => /\ Lookup(db_results, "milvus").success
                             /\ Lookup(db_results, "milvus").data = last.ret

\* a call of insert_vectors or search_vectors on the Milvus client leaves
\* the mock_mode flag as it was
FallbackKeepsFlag ==
    [][(adapters'["milvus"].last # adapters["milvus"].last
          /\ adapters'["milvus"].last.method \in {"insert_vectors", "search_vectors"})
        => adapters'["milvus"].mock_mode = adapters["milvus"].mock_mode]_vars

\* C37: when every endpoint of a Milvus insert (search) fails, with a
\* status or with an exception, the call does not raise: it returns
\* {"status": "success", "insert_count": len(vectors), ...} (min(limit, 5)
\* mock identifiers under 'data'), so that the client's result is a success
\* with that payload when the outcomes are compared; the fallback leaves
\* the client's mock_mode flag as it was.
C37_FallbackLooksLikeSuccess ==
    []FallbackLooksLikeSuccess /\ FallbackKeepsFlag

\* two vectors were inserted without ids, the three endpoints answered with
\* an exception, and the outcome compared is a success with insert_count 2;
\* the client is not in mock mode
C37_Witness ==
    /\ Compared
    /\ operation = "insert"
    /\ inputs.vectors = 2
    /\ AllFailed("milvus", "insert_vectors", 3, {"ok", "ok_no_json"})
    /\ adapters["milvus"].last.requests[3].answer = "exception"
    /\ ~adapters["milvus"].mock_mode
    /\ adapters["milvus"].setups = 1
    /\ Lookup(db_results, "milvus").success
    /\ GetItem(Lookup(db_results, "milvus").data, "insert_count") = PyInt(2)

C37_WitnessSearch ==
    /\ Compared
    /\ operation = "search"
    /\ inputs.limit = 8
    /\ AllFailed("milvus", "search_vectors", 3, {"ok"})
    /\ ~adapters["milvus"].mock_mode
    /\ Lookup(db_results, "milvus").success
    /\ Len(GetItem(Lookup(db_results, "milvus").data, "data").l) = 5


QdrantInserted == adapters["qdrant"].last.method = "insert_vectors"

\* C38: for each insert format the Qdrant client tries PUT and then POST:
\* a PUT that does not succeed (an answer other than a success status and
\* other than 404, or an exception) is followed by the POST of the same
\* format before the next format is tried, and insert_vectors fails only
\* after the three formats have failed with both methods.
C38_PostAfterFailedPut ==
    QdrantInserted =>
        LET last == adapters["qdrant"].last
        IN  /\ \A j \in 1..Len(last.requests) :
                  (last.requests[j].verb = "PUT"
                      /\ last.requests[j].answer \in {"refused", "exception"}) =>
                      /\ j < Len(last.requests)
                      /\ last.requests[j + 1].verb = "POST"
                      /\ last.requests[j + 1].url = last.requests[j].url
            /\ last.outcome = "raised" =>
                  Len(last.requests) = 2 * Len(InsertFormats)

\* what the code does instead: only a PUT that raised is followed by the
\* POST of its format; after a PUT answered with a refusing status the next
\* format, if any, is tried at once, and the insert fails when each format
\* has failed with the one or two methods that were tried
C38_PostOnlyAfterException ==
    QdrantInserted =>
        LET last == adapters["qdrant"].last
        IN  /\ \A j \in 1..Len(last.requests) :
                  /\ (last.requests[j].verb = "PUT"
                        /\ last.requests[j].answer = "exception") =>
                        /\ j < Len(last.requests)
                        /\ last.requests[j + 1].verb = "POST"
                        /\ last.requests[j + 1].url = last.requests[j].url
                  /\ (last.requests[j].verb = "PUT"
                        /\ last.requests[j].answer = "refused"
                        /\ j < Len(last.requests)) =>
                        /\ last.requests[j + 1].verb = "PUT"
                        /\ last.requests[j + 1].url # last.requests[j].url
            /\ last.outcome = "raised" =>
                  /\ Len(last.requests) >= Len(InsertFormats)
                  /\ \A i \in 1..Len(InsertFormats) :
                        \E j \in 1..Len(last.requests) :
                            /\ last.requests[j].verb = "PUT"
                            /\ last.requests[j].url = InsertFormats[i]

\* the three PUTs were refused and the insert failed without one POST
C38_Reached ==
    /\ QdrantInserted
    /\ adapters["qdrant"].last.outcome = "raised"
    /\ Len(adapters["qdrant"].last.requests) = 3
    /\ \A j \in 1..3 : adapters["qdrant"].last.requests[j].verb = "PUT"


\* what a method of the Milvus client returns in mock mode (lines 239, 296,
\* 340, 357; cleanup returns nothing, line 231)
Canned(method) ==
    CASE method = "insert_vectors" ->
            PyDict(<<KV("status", PyStr("success")),
                     KV("insert_count", PyInt(inputs.vectors)),
                     KV("insert_ids", IF inputs.ids = PyNone
                                      THEN PyList(<<>>) ELSE inputs.ids)>>)
      [] method = "search_vectors" ->
            PyDict(<<KV("data",
                PyList([j \in 1..Min(inputs.limit, MockResults) |->
                    PyDict(<<KV("id", PyStr("mock_result_"
                                              \o IntToStr(j - 1)))>>)]))>>)
      [] method = "delete_vectors" ->
            PyDict(<<KV("status", PyStr("success"))>>)
      [] method = "get_collection_info" ->
            PyDict(<<KV("collectionName", PyStr(inputs.collection_name)),
                     KV("status", PyStr("loaded")),
                     KV("fields", PyList(<<PyStr("id"), PyStr("vector")>>))>>)
      [] OTHER -> PyNone

\* C39: the mock_mode flag of the Milvus client is set by
\* setup_test_collection only, in a call none of whose creation requests
\* succeeded, and is never cleared; a call of insert_vectors,
\* search_vectors, delete_vectors, get_collection_info or cleanup made while
\* it is set issues no request and returns the method's canned payload.
C39_MockModeIsSticky ==
    [][LET before == adapters["milvus"]
           after == adapters'["milvus"]
       IN  /\ before.mock_mode => after.mock_mode
           /\ (~before.mock_mode /\ after.mock_mode) =>
                 /\ after.setups = before.setups + 1
                 /\ after.api_version = before.api_version
                 /\ after.last = before.last
           /\ (before.mock_mode /\ after.last # before.last) =>
                 /\ after.last.method \in
                       {"insert_vectors", "search_vectors", "delete_vectors",
                        "get_collection_info", "cleanup"}
                 /\ after.last.mock
                 /\ after.last.requests = <<>>
                 /\ after.last.outcome = "returned"
                 /\ after.last.ret = Canned(after.last.method)]_vars

\* the flag was set by a second setup, after a first one that succeeded,
\* and the delete made then issued no request
C39_Witness ==
    /\ adapters["milvus"].mock_mode
    /\ adapters["milvus"].setups = 2
    /\ adapters["milvus"].first = <<"/v2", FALSE>>
    /\ adapters["milvus"].last.method = "delete_vectors"
    /\ adapters["milvus"].last.mock
    /\ adapters["milvus"].last.requests = <<>>
    /\ adapters["milvus"].last.ret = PyDict(<<KV("status", PyStr("success"))>>)

C39_WitnessInsert ==
    /\ adapters["milvus"].mock_mode
    /\ adapters["milvus"].last.method = "insert_vectors"
    /\ adapters["milvus"].last.mock
    /\ adapters["milvus"].last.requests = <<>>
    /\ inputs.ids # PyNone
    /\ Len(GetItem(adapters["milvus"].last.ret, "insert_ids").l) = 2

C39_WitnessCleanup ==
    /\ adapters["milvus"].mock_mode
    /\ adapters["milvus"].last.method = "cleanup"
    /\ adapters["milvus"].last.mock
    /\ adapters["milvus"].last.requests = <<>>



(***************************************************************************)
(* _generate_vector called by itself (fuzz_generator.py lines 55-88): the  *)
(* dimension asked for and what the calls of random return are chosen at   *)
(* the start; scenario holds them, params the vector returned.             *)
(***************************************************************************)
\* the dimensions a generator may be configured with
Dimensions == {8, VectorDimension, 300}

InitVector ==
    /\ pc = "drawing"
    /\ operation = ""
    /\ inputs = MkInputs(FALSE, 0, <<>>)
    /\ tasks = [n \in Names |-> Task("none", 0, <<>>, NoResult)]
    /\ calls = [n \in Names |-> <<>>]
    /\ db_results = <<>>
    /\ inconsistencies = <<>>
    /\ test_result = NoTestResult
    /\ NoSecond
    /\ NoExtraction
    /\ NoLifecycle
    /\ params = PyNone
    /\ \E d \in Draws, dimension \in Dimensions, wrong \in WrongSizes,
          large \in LargeSizes :
          scenario = [draw |-> d, dimension |-> dimension, wrong |-> wrong,
                      large |-> large]

\* vector = self._generate_vector()
GenerateVector ==
    /\ pc = "drawing"
    /\ params' = GenerateVectorSized(scenario.draw, scenario.dimension,
                                     scenario.wrong, scenario.large)
    /\ pc' = "drawn"
    /\ UNCHANGED <<operation, inputs, tasks, calls, db_results,
                   inconsistencies, test_result, second, extraction, scenario,
                   lifecycle>>

NextVector == GenerateVector

SpecVector == InitVector /\ [][NextVector]_vars

\* the lengths of the claim for the configured dimension d
AllowedLengths(d) ==
    {0} \cup (1..MaxWrongDimension)
        \cup UNION {{n, n + 1, n + 2, n + 3} :
                        n \in {d} \cup (MinLargeDimension..LargeDimension)}

\* C40: a vector returned by _generate_vector for the configured dimension
\* d has a length in {0}, 1..256 or {n, n+1, n+2, n+3} with n = d or n in
\* 256..1000.  The empty vector and the wrong-dimension vector are returned
\* at once, without any other injection; otherwise Infinity and -Infinity
\* (2 components) and NaN (1 component) are appended after the n generated
\* components, so that the length is n plus 2 and/or 1.
C40_VectorLengths ==
    pc = "drawn" =>
        LET d == scenario.draw
            n == IF d.large THEN scenario.large ELSE scenario.dimension
        IN  /\ params.i \in AllowedLengths(scenario.dimension)
            /\ (d.invalid /\ d.empty) => params = Floats(0, <<>>)
            /\ (d.invalid /\ ~d.empty) =>
                  /\ params.i \in 1..MaxWrongDimension
                  /\ params.l = <<>>
            /\ ~d.invalid =>
                  /\ n \in {scenario.dimension}
                              \cup (MinLargeDimension..LargeDimension)
                  /\ params.i = n + (IF Marked(params, "inf") THEN 2 ELSE 0)
                                  + (IF Marked(params, "nan") THEN 1 ELSE 0)
                  /\ Marked(params, "inf") = d.infs
                  /\ Marked(params, "-inf") = d.infs
                  /\ Marked(params, "nan") = d.nan

\* the largest vector: 1000 components, then Infinity, -Infinity and NaN
C40_Witness ==
    /\ pc = "drawn"
    /\ scenario.draw.large /\ scenario.large = LargeDimension
    /\ params.i = LargeDimension + 3
    /\ Marked(params, "inf") /\ Marked(params, "nan")

\* a wrong-dimension vector of 256 components although the other draws
\* would have injected special values
C40_WitnessWrong ==
    /\ pc = "drawn"
    /\ scenario.draw.invalid /\ ~scenario.draw.empty
    /\ scenario.draw.infs /\ scenario.draw.nan /\ scenario.draw.large
    /\ params = Floats(MaxWrongDimension, <<>>)

====
